---- MODULE Spec2Model ----
(***************************************************************************)
(* A model of the vLLM composer middleware: the per-backend health record  *)
(* and circuit breaker, the metrics and model probes with their TTL        *)
(* caches, the refresh runs, the /v1/models listing and load_config        *)
(* (vllmComposer.py), the /v1/{path} dispatcher, /health and the /metrics  *)
(* aggregation (app.py).                                                   *)
(*                                                                         *)
(* asyncio runs one coroutine at a time and switches only at an await that *)
(* really suspends.  The only such awaits are the outbound HTTP calls, so  *)
(* each action below is the code between two outbound HTTP calls.          *)
(*                                                                         *)
(* Optional values (Python's None) are sequences: <<>> is None, <<v>> is v.*)
(* Python dicts are functions whose DOMAIN is the set of keys present.     *)
(***************************************************************************)
EXTENDS Integers, Sequences, FiniteSets, TLC

\* ------------------------------------------------------------------ bounds
MaxTime == 4           \* the clock stops here
MaxFailuresCfg == 3    \* max_failures is configured in 1..MaxFailuresCfg
CooldownTicks == 2     \* cooldown_period, in clock ticks
MaxInflight == 2       \* outstanding probe requests per backend and kind
MaxLoad == 1           \* a backend reports a load in 0..MaxLoad
MaxHosts == 2          \* entries of vllm_hosts in a configuration file
MaxPort == 2           \* ports.start and ports.end are in 1..MaxPort
MaxLines == 3          \* lines of a backend's /metrics text
MaxRuns == 2           \* runs of refresh_metrics and refresh_models

None == <<>>
Some(v) == <<v>>

\* ------------------------------------------------------------------ state
VARIABLES
    now,                      \* datetime.utcnow(), in ticks
    servers,                  \* self.servers: the registry, a list of dicts
    max_failures,             \* self.max_failures
    server_health,            \* self.server_health: url -> {healthy, last_checked}
    failure_counts,           \* self.failure_counts: defaultdict(int)
    circuit_breaker_timeout,  \* self.circuit_breaker_timeout: url -> datetime
    metrics_cache,            \* self.metrics_cache: TTLCache url -> load
    model_cache,              \* self.model_cache: TTLCache url -> descriptor
    group_tokens,             \* self.group_tokens: group -> tokens, in file order
    vllm_token,               \* self.vllm_token
    hosted,                   \* what each backend answers on /v1/models
    upstream,                 \* what each backend answers on a forwarded /v1/{path}
    clients,                  \* the requests clients may send
    inflight,                 \* outbound probe requests awaiting their response
    req,                      \* the /v1/{path} requests being handled
    crossed_at,               \* history: time of the failure that reached max_failures
    ev                        \* history: the call that made the last step

\* what no request and no probe writes
cfg == <<servers, max_failures, group_tokens, vllm_token, hosted, upstream, clients>>

vars == <<now, cfg, server_health, failure_counts, circuit_breaker_timeout,
          metrics_cache, model_cache, inflight, req, crossed_at, ev>>

Registered == {"u1", "u2", "u3"}
Unlisted == "ux"              \* a URL that is in no configuration
Urls == Registered \cup {Unlisted}
Kinds == {"metrics", "model"}
Groups == {"g1", "g2"}
Loads == 0..MaxLoad
cooldown_period == CooldownTicks

Descriptor(id, created) == [id |-> id, created |-> created]

\* What a backend does with a forwarded request: it answers with a status and
\* a body of chunks, and with breaks the connection fails after the chunks;
\* a backend that is down (None) refuses the connection.
Answer(status, chunks, breaks) == Some([status |-> status, chunks |-> chunks, breaks |-> breaks])
Down == None

\* The health state the circuit-breaker methods read and write.
H == [sh |-> server_health, fc |-> failure_counts, cbt |-> circuit_breaker_timeout]

SetH(h) ==
    /\ server_health' = h.sh
    /\ failure_counts' = h.fc
    /\ circuit_breaker_timeout' = h.cbt

\* d[k] = v on a dict
Put(d, k, v) == [x \in DOMAIN d \cup {k} |-> IF x = k THEN v ELSE d[x]]
\* del d[k]
Del(d, k) == [x \in DOMAIN d \ {k} |-> d[x]]

\* ---------------------------------------------------- health and breaker

\* update_server_health without "self.failure_counts[server_url] = 0"
UpdateServerHealth_NoReset(h, u, is_healthy, t) ==
    [h EXCEPT !.sh = Put(h.sh, u, [healthy |-> is_healthy, last_checked |-> Some(t)])]

\* update_server_health(server_url, is_healthy)
UpdateServerHealth(h, u, is_healthy, t) ==
    [h EXCEPT !.sh = Put(h.sh, u, [healthy |-> is_healthy, last_checked |-> Some(t)]),
              !.fc = IF is_healthy THEN [h.fc EXCEPT ![u] = 0] ELSE h.fc]

\* handle_server_failure returning right after it has counted the failure
HandleServerFailure_CountOnly(h, u, t) ==
    [h EXCEPT !.fc = [h.fc EXCEPT ![u] = @ + 1]]

\* handle_server_failure setting the breaker timestamp at every failure
HandleServerFailure_AlwaysOpens(h, u, t) ==
    LET n == h.fc[u] + 1
        counted == [h EXCEPT !.fc = [h.fc EXCEPT ![u] = n]]
        opened == [counted EXCEPT !.cbt = Put(h.cbt, u, t + cooldown_period)]
    IN UpdateServerHealth(opened, u, FALSE, t)

\* handle_server_failure(server_url)
HandleServerFailure(h, u, t) ==
    LET n == h.fc[u] + 1
        counted == [h EXCEPT !.fc = [h.fc EXCEPT ![u] = n]]
        opened == IF n >= max_failures
                  THEN [counted EXCEPT !.cbt = Put(h.cbt, u, t + cooldown_period)]
                  ELSE counted
    IN UpdateServerHealth(opened, u, FALSE, t)

\* check_circuit_breaker deleting an elapsed timestamp and keeping the count
CheckCircuitBreaker_KeepsCount(h, u, t) ==
    IF u \in DOMAIN h.cbt /\ h.cbt[u] > t
    THEN [ret |-> FALSE, h |-> h]
    ELSE IF u \in DOMAIN h.cbt
         THEN [ret |-> TRUE, h |-> [h EXCEPT !.cbt = Del(h.cbt, u)]]
         ELSE [ret |-> TRUE, h |-> h]

\* check_circuit_breaker(server_url): the returned bool and the state it leaves
CheckCircuitBreaker(h, u, t) ==
    IF u \in DOMAIN h.cbt /\ h.cbt[u] > t
    THEN [ret |-> FALSE, h |-> h]
    ELSE IF u \in DOMAIN h.cbt
         THEN [ret |-> TRUE,
               h |-> [h EXCEPT !.cbt = Del(h.cbt, u), !.fc = [h.fc EXCEPT ![u] = 0]]]
         ELSE [ret |-> TRUE, h |-> h]

\* self.server_health.get(server_url, {"healthy": True})["healthy"]
HealthyFlag(sh, u) == IF u \in DOMAIN sh THEN sh[u].healthy ELSE TRUE

\* is_server_healthy without its call of check_circuit_breaker
IsServerHealthy_FlagOnly(h, u, t) == [ret |-> HealthyFlag(h.sh, u), h |-> h]

\* is_server_healthy(server_url): the returned bool and the state it leaves
IsServerHealthy(h, u, t) ==
    LET c == CheckCircuitBreaker(h, u, t)
    IN IF ~c.ret THEN [ret |-> FALSE, h |-> c.h]
       ELSE [ret |-> HealthyFlag(c.h.sh, u), h |-> c.h]

\* ------------------------------------------------------------------ probes
\* The composer state the probes read and write: the health state and the
\* two caches.
C == [h |-> H, mc |-> metrics_cache, mdc |-> model_cache]

SetC(c) ==
    /\ SetH(c.h)
    /\ metrics_cache' = c.mc
    /\ model_cache' = c.mdc

\* get_server_load without the health gate
GetServerLoadBegin_NoGate(c, u, t) ==
    IF u \in DOMAIN c.mc THEN [c |-> c, sent |-> FALSE, ret |-> Some(c.mc[u])]
    ELSE [c |-> c, sent |-> TRUE, ret |-> None]

\* get_server_load up to its HTTP request: the health gate, then the cache;
\* sent says that the request went out.
GetServerLoadBegin(c, u, t) ==
    LET r == IsServerHealthy(c.h, u, t)
        c1 == [c EXCEPT !.h = r.h]
    IN IF ~r.ret THEN [c |-> c1, sent |-> FALSE, ret |-> None]
       ELSE IF u \in DOMAIN c.mc THEN [c |-> c1, sent |-> FALSE, ret |-> Some(c.mc[u])]
       ELSE [c |-> c1, sent |-> TRUE, ret |-> None]

\* get_server_load after a 2xx response: the load is cached, the backend
\* marked healthy.
GetServerLoadOk(c, u, load, t) ==
    [c EXCEPT !.mc = Put(c.mc, u, load),
              !.h = UpdateServerHealth(c.h, u, TRUE, t)]

\* get_server_load caching the load 0 when its request fails
GetServerLoadFail_CachesZero(c, u, t) ==
    [c EXCEPT !.mc = Put(c.mc, u, 0), !.h = HandleServerFailure(c.h, u, t)]

\* get_server_load after a timeout, a transport error or a non-2xx status
GetServerLoadFail(c, u, t) == [c EXCEPT !.h = HandleServerFailure(c.h, u, t)]

\* get_model_on_server without the look into the cache
GetModelOnServerBegin_NoCache(c, u, t) ==
    LET r == IsServerHealthy(c.h, u, t)
        c1 == [c EXCEPT !.h = r.h]
    IN IF ~r.ret THEN [c |-> c1, sent |-> FALSE, ret |-> None]
       ELSE [c |-> c1, sent |-> TRUE, ret |-> None]

\* get_model_on_server up to its HTTP request
GetModelOnServerBegin(c, u, t) ==
    LET r == IsServerHealthy(c.h, u, t)
        c1 == [c EXCEPT !.h = r.h]
    IN IF ~r.ret THEN [c |-> c1, sent |-> FALSE, ret |-> None]
       ELSE IF u \in DOMAIN c.mdc THEN [c |-> c1, sent |-> FALSE, ret |-> Some(c.mdc[u])]
       ELSE [c |-> c1, sent |-> TRUE, ret |-> None]

\* get_model_on_server after a 2xx response with a non-empty data array:
\* models[0] is cached, the backend marked healthy.
GetModelOnServerOk(c, u, model_info, t) ==
    [c EXCEPT !.mdc = Put(c.mdc, u, model_info),
              !.h = UpdateServerHealth(c.h, u, TRUE, t)]

\* get_model_on_server handling an empty data array as a failure
GetModelOnServerEmpty_CountsFailure(c, u, t) ==
    [c EXCEPT !.h = HandleServerFailure(c.h, u, t)]

\* get_model_on_server after a 2xx response whose data array is empty or
\* absent: "if models:" is false and the method falls off its end.
GetModelOnServerEmpty(c, u, t) == c

\* get_model_on_server after a timeout, a transport error, a non-2xx status
\* or a body that is not JSON
GetModelOnServerFail(c, u, t) == [c EXCEPT !.h = HandleServerFailure(c.h, u, t)]

\* ------------------------------------------------------------ the last call
Ev(op, u, ret, reset) == [op |-> op, url |-> u, ret |-> ret, reset |-> reset]

\* history: the time at which failure_counts[u] reached max_failures
Crossing(u, before, after) ==
    IF before.fc[u] < max_failures /\ after.fc[u] >= max_failures
    THEN [crossed_at EXCEPT ![u] = Some(now)]
    ELSE crossed_at

\* ------------------------------------------- calls made outside a request
\* refresh_metrics and refresh_models gather one probe per registry entry;
\* each probe is a task of its own.

\* A call of is_server_healthy.
IsServerHealthyCall(u) ==
    LET r == IsServerHealthy(H, u, now)
    IN /\ SetH(r.h)
       /\ ev' = Ev("is_server_healthy", u, Some(r.ret),
                   u \in DOMAIN circuit_breaker_timeout /\ u \notin DOMAIN r.h.cbt)
       /\ UNCHANGED <<now, cfg, metrics_cache, model_cache, inflight, crossed_at, req>>

GetServerLoad(u) ==
    LET b == GetServerLoadBegin(C, u, now)
    IN /\ SetC(b.c)
       /\ IF b.sent
          THEN /\ inflight[u]["metrics"] < MaxInflight
               /\ inflight' = [inflight EXCEPT ![u]["metrics"] = @ + 1]
               /\ ev' = Ev("metrics_request", u, None, FALSE)
          ELSE /\ ev' = Ev("get_server_load", u, b.ret, FALSE)
               /\ UNCHANGED inflight
       /\ UNCHANGED <<now, cfg, crossed_at, req>>

MetricsSucceed(u, load) ==
    /\ inflight[u]["metrics"] > 0
    /\ inflight' = [inflight EXCEPT ![u]["metrics"] = @ - 1]
    /\ SetC(GetServerLoadOk(C, u, load, now))
    /\ ev' = Ev("metrics_ok", u, Some(load), FALSE)
    /\ UNCHANGED <<now, cfg, crossed_at, req>>

MetricsFail(u) ==
    LET c == GetServerLoadFail(C, u, now)
    IN /\ inflight[u]["metrics"] > 0
       /\ inflight' = [inflight EXCEPT ![u]["metrics"] = @ - 1]
       /\ SetC(c)
       /\ crossed_at' = Crossing(u, H, c.h)
       /\ ev' = Ev("metrics_fail", u, None, FALSE)
       /\ UNCHANGED <<now, cfg, req>>

GetModelOnServer(u) ==
    LET b == GetModelOnServerBegin(C, u, now)
    IN /\ SetC(b.c)
       /\ IF b.sent
          THEN /\ inflight[u]["model"] < MaxInflight
               /\ inflight' = [inflight EXCEPT ![u]["model"] = @ + 1]
               /\ ev' = Ev("model_request", u, None, FALSE)
          ELSE /\ ev' = Ev("get_model_on_server", u, b.ret, FALSE)
               /\ UNCHANGED inflight
       /\ UNCHANGED <<now, cfg, crossed_at, req>>

ModelSucceed(u) ==
    /\ inflight[u]["model"] > 0
    /\ hosted[u] # None
    /\ inflight' = [inflight EXCEPT ![u]["model"] = @ - 1]
    /\ SetC(GetModelOnServerOk(C, u, hosted[u][1], now))
    /\ ev' = Ev("model_ok", u, hosted[u], FALSE)
    /\ UNCHANGED <<now, cfg, crossed_at, req>>

\* A 2xx response whose data array is empty or absent: get_model_on_server
\* falls off its end and returns None.
ModelEmpty(u) ==
    /\ inflight[u]["model"] > 0
    /\ hosted[u] = None
    /\ inflight' = [inflight EXCEPT ![u]["model"] = @ - 1]
    /\ SetC(GetModelOnServerEmpty(C, u, now))
    /\ ev' = Ev("model_empty", u, None, FALSE)
    /\ UNCHANGED <<now, cfg, crossed_at, req>>

ModelFail(u) ==
    LET c == GetModelOnServerFail(C, u, now)
    IN /\ inflight[u]["model"] > 0
       /\ inflight' = [inflight EXCEPT ![u]["model"] = @ - 1]
       /\ SetC(c)
       /\ crossed_at' = Crossing(u, H, c.h)
       /\ ev' = Ev("model_fail", u, None, FALSE)
       /\ UNCHANGED <<now, cfg, req>>

\* -------------------------------------------------------------- dispatcher
\* proxy_request of app.py, calling the composer methods of vllmComposer.py.
\* app.py carries an older copy of the composer class; where the copy's
\* selection differs it is modelled apart (LegacyLeastUtilized).
\* A header value is a string; scheme is the word before its first blank
\* ("" when there is none) and rest is what follows it.
Bearer(token) == [scheme |-> "Bearer", rest |-> token]
Plain(text) == [scheme |-> "", rest |-> text]
Header(k, v) == [k |-> k, v |-> v]

\* str.lower() on a header name
Lower(k) ==
    CASE k = "Authorization" -> "authorization"
      [] k = "AUTHORIZATION" -> "authorization"
      [] k = "X-Trace" -> "x-trace"
      [] OTHER -> k

\* request.headers.get(name): the first header of that name, case-insensitive
RECURSIVE HeaderScan(_, _, _)
HeaderScan(hs, i, name) ==
    IF i > Len(hs) THEN None
    ELSE IF Lower(hs[i].k) = Lower(name) THEN Some(hs[i].v)
    ELSE HeaderScan(hs, i + 1, name)

HeaderGet(hs, name) == HeaderScan(hs, 1, name)

\* get_group_for_token(token): the first group, in dict order, that lists it
RECURSIVE GroupScan(_, _)
GroupScan(i, token) ==
    IF i > Len(group_tokens) THEN None
    ELSE IF token \in group_tokens[i].tokens THEN Some(group_tokens[i].group)
    ELSE GroupScan(i + 1, token)

\* get_group_for_token returning the last group that lists the token
GetGroupForToken_LastGroup(token) ==
    LET holders == {i \in DOMAIN group_tokens : token \in group_tokens[i].tokens}
    IN IF holders = {} THEN None
       ELSE Some(group_tokens[CHOOSE i \in holders : \A j \in holders : j <= i].group)

\* get_group_for_token(token)
GetGroupForToken(token) == GroupScan(1, token)

SupportedPaths == {"chat/completions", "completions", "models", "embeddings"}

\* The locals of one proxy_request call.  obs_healthy, obs_model and obs_load
\* are history: what is_server_healthy, get_model_on_server and
\* get_server_load returned to this call for each backend; obs_open is
\* history: the backends whose breaker timestamp was still ahead when
\* handle_models_request came to them; obs_loads is history: what the calls
\* of get_server_load returned to get_least_utilized_server, in the order of
\* its input list; after is history too: the requests that were answered
\* before this one arrived.
NoRequest ==
    [pc |-> "idle", group |-> "", model |-> "", stream |-> FALSE,
     in_headers |-> << >>, idx |-> 0, compatible |-> << >>, min_load |-> None,
     least |-> << >>, selnow |-> 0, chosen |-> None, out_headers |-> << >>,
     sent |-> FALSE, status |-> 0, detail |-> "",
     path |-> "", body |-> << >>, received |-> << >>, streamed |-> FALSE,
     models_data |-> << >>, obs_open |-> {}, metrics_data |-> << >>,
     obs_healthy |-> << >>, obs_model |-> << >>, obs_load |-> << >>,
     obs_loads |-> << >>, after |-> {}]

\* raise HTTPException(status_code, detail)
Raise(q, status, detail) == [q EXCEPT !.pc = "done", !.status = status, !.detail = detail]

\* steps 1 to 3 with the route tested before the group
ProxyRequestBegin_RouteFirst(q, inp) ==
    LET auth == HeaderGet(inp.headers, "Authorization")
        q0 == [q EXCEPT !.in_headers = inp.headers, !.path = inp.path,
                        !.body = Some(inp.body)]
    IN IF auth = None \/ auth[1].scheme # "Bearer"
       THEN Raise(q0, 401, "unauthorized")
       ELSE LET user_group == GetGroupForToken(auth[1].rest)
            IN IF inp.path \notin SupportedPaths THEN Raise(q0, 404, "not found")
               ELSE IF user_group = None THEN Raise(q0, 403, "forbidden")
               ELSE IF inp.path = "models"
               THEN [q0 EXCEPT !.pc = "models", !.group = user_group[1], !.idx = 1]
               ELSE IF ~inp.body.json \/ inp.body.model = None
               THEN Raise(q0, 400, "bad request")
               ELSE [q0 EXCEPT !.pc = "compat", !.group = user_group[1],
                                !.model = inp.body.model[1],
                                !.stream = inp.body.stream, !.idx = 1]

\* proxy_request, steps 1 to 3: the token, the group, the route, the payload
ProxyRequestBegin(q, inp) ==
    LET auth == HeaderGet(inp.headers, "Authorization")
        q0 == [q EXCEPT !.in_headers = inp.headers, !.path = inp.path,
                        !.body = Some(inp.body)]
    IN IF auth = None \/ auth[1].scheme # "Bearer"
       THEN Raise(q0, 401, "unauthorized")
       ELSE LET user_group == GetGroupForToken(auth[1].rest)
            IN IF user_group = None THEN Raise(q0, 403, "forbidden")
               ELSE IF inp.path \notin SupportedPaths THEN Raise(q0, 404, "not found")
               ELSE IF inp.path = "models"
               THEN [q0 EXCEPT !.pc = "models", !.group = user_group[1], !.idx = 1]
               ELSE IF ~inp.body.json \/ inp.body.model = None
               THEN Raise(q0, 400, "bad request")
               ELSE [q0 EXCEPT !.pc = "compat", !.group = user_group[1],
                                !.model = inp.body.model[1],
                                !.stream = inp.body.stream, !.idx = 1]

\* get_compatible_servers: what one get_model_on_server result does to the loop
CompatResult_AnyModel(q, u, model_info) ==
    LET q1 == [q EXCEPT !.obs_model = Put(@, u, model_info), !.idx = @ + 1,
                        !.pc = "compat"]
    IN IF model_info # None
       THEN [q1 EXCEPT !.compatible = Append(@, u)]
       ELSE q1

CompatResult(q, u, model_info) ==
    LET q1 == [q EXCEPT !.obs_model = Put(@, u, model_info), !.idx = @ + 1,
                        !.pc = "compat"]
    IN IF model_info # None /\ model_info[1].id = q.model
       THEN [q1 EXCEPT !.compatible = Append(@, u)]
       ELSE q1

\* get_compatible_servers: the loop over self.servers, up to the next HTTP
\* request; at its end proxy_request answers 503 or goes on to the selection.
CompatStep(st) ==
    LET q == st.q
    IN IF q.idx > Len(servers)
       THEN IF q.compatible = << >>
            THEN [st EXCEPT !.q = Raise(q, 503, "no compatible servers")]
            ELSE [st EXCEPT !.q = [q EXCEPT !.pc = "select", !.idx = 1, !.selnow = now]]
       ELSE LET s == servers[q.idx]
                u == s.url
            IN IF q.group \notin s.allowed_groups
               THEN [st EXCEPT !.q = [q EXCEPT !.idx = @ + 1]]
               ELSE LET r == IsServerHealthy(st.c.h, u, now)
                        q1 == [q EXCEPT !.obs_healthy = Put(@, u, r.ret)]
                        c1 == [st.c EXCEPT !.h = r.h]
                    IN IF ~r.ret
                       THEN [c |-> c1, q |-> [q1 EXCEPT !.idx = @ + 1]]
                       ELSE LET b == GetModelOnServerBegin(c1, u, now)
                            IN IF b.sent
                               THEN [c |-> b.c, q |-> [q1 EXCEPT !.pc = "wait_model"]]
                               ELSE [c |-> b.c, q |-> CompatResult(q1, u, b.ret)]

\* get_least_utilized_server, first pass: what one get_server_load result
\* does to min_load and least_loaded_servers
LoadResult_AppendAll(q, u, server_load) ==
    LET q1 == [q EXCEPT !.obs_load = Put(@, u, server_load),
                        !.obs_loads = Append(@, server_load), !.idx = @ + 1,
                        !.pc = "select"]
    IN IF server_load = None THEN q1
       ELSE IF q.min_load = None \/ server_load[1] < q.min_load[1]
       THEN [q1 EXCEPT !.min_load = server_load, !.least = <<u>>]
       ELSE [q1 EXCEPT !.least = Append(@, u)]

\* the first pass emptying least_loaded_servers when a probe returns None
LoadResult_ClearsOnNone(q, u, server_load) ==
    LET q1 == [q EXCEPT !.obs_load = Put(@, u, server_load),
                        !.obs_loads = Append(@, server_load), !.idx = @ + 1,
                        !.pc = "select"]
    IN IF server_load = None THEN [q1 EXCEPT !.min_load = None, !.least = << >>]
       ELSE IF q.min_load = None \/ server_load[1] < q.min_load[1]
       THEN [q1 EXCEPT !.min_load = server_load, !.least = <<u>>]
       ELSE IF server_load[1] = q.min_load[1]
       THEN [q1 EXCEPT !.least = Append(@, u)]
       ELSE q1

LoadResult(q, u, server_load) ==
    LET q1 == [q EXCEPT !.obs_load = Put(@, u, server_load),
                        !.obs_loads = Append(@, server_load), !.idx = @ + 1,
                        !.pc = "select"]
    IN IF server_load = None THEN q1
       ELSE IF q.min_load = None \/ server_load[1] < q.min_load[1]
       THEN [q1 EXCEPT !.min_load = server_load, !.least = <<u>>]
       ELSE IF server_load[1] = q.min_load[1]
       THEN [q1 EXCEPT !.least = Append(@, u)]
       ELSE q1

\* next((s for s in self.servers if s["url"] == server_url), None)
RECURSIVE EntryScan(_, _)
EntryScan(i, u) ==
    IF i > Len(servers) THEN None
    ELSE IF servers[i].url = u THEN Some(servers[i])
    ELSE EntryScan(i + 1, u)

ServerEntry(u) == EntryScan(1, u)

\* get_least_utilized_server, second pass, from the i-th least loaded server
RECURSIVE SecondPassFrom(_, _, _, _, _)
\* the second pass passing over a server that was never used
SecondPassFrom_SkipNever(least, i, t, least_recent_utilization, selected_server) ==
    IF i > Len(least) THEN selected_server
    ELSE LET server_entry == ServerEntry(least[i])
         IN IF server_entry = None \/ server_entry[1].last_utilization = None
            THEN SecondPassFrom(least, i + 1, t, least_recent_utilization,
                                IF selected_server = None THEN Some(least[i])
                                ELSE selected_server)
            ELSE LET time_since_utilization == t - server_entry[1].last_utilization[1]
                 IN IF time_since_utilization > least_recent_utilization
                    THEN SecondPassFrom(least, i + 1, t, time_since_utilization,
                                        Some(least[i]))
                    ELSE SecondPassFrom(least, i + 1, t, least_recent_utilization,
                                        selected_server)

SecondPassFrom(least, i, t, least_recent_utilization, selected_server) ==
    IF i > Len(least) THEN selected_server
    ELSE LET server_entry == ServerEntry(least[i])
         IN IF server_entry = None
            THEN SecondPassFrom(least, i + 1, t, least_recent_utilization, selected_server)
            ELSE IF server_entry[1].last_utilization = None
            THEN Some(least[i])
            ELSE LET time_since_utilization == t - server_entry[1].last_utilization[1]
                 IN IF time_since_utilization > least_recent_utilization
                    THEN SecondPassFrom(least, i + 1, t, time_since_utilization,
                                        Some(least[i]))
                    ELSE SecondPassFrom(least, i + 1, t, least_recent_utilization,
                                        selected_server)

\* get_least_utilized_server, second pass: least_recent_utilization = -1,
\* selected_server = None, then the loop
SecondPass(least, t) == SecondPassFrom(least, 1, t, -1, None)

\* the selection falling back to the first compatible backend when no load
\* probe returned a value
SelectStep_ForwardAnyway(st) ==
    LET q == st.q
    IN IF q.idx > Len(q.compatible)
       THEN LET least_loaded_server ==
                    IF q.least = << >> THEN Some(q.compatible[1])
                    ELSE SecondPass(q.least, q.selnow)
            IN IF least_loaded_server = None
               THEN [st EXCEPT !.q = Raise(q, 503, "no capacity")]
               ELSE [st EXCEPT !.q = [q EXCEPT !.pc = "forward",
                                               !.chosen = least_loaded_server]]
       ELSE LET u == q.compatible[q.idx]
                b == GetServerLoadBegin(st.c, u, now)
            IN IF b.sent
               THEN [c |-> b.c, q |-> [q EXCEPT !.pc = "wait_load"]]
               ELSE [c |-> b.c, q |-> LoadResult(q, u, b.ret)]

\* get_least_utilized_server: the loop over compatible_servers up to the next
\* HTTP request; at its end the second pass, and proxy_request answers 503 or
\* goes on to forward.
SelectStep(st) ==
    LET q == st.q
    IN IF q.idx > Len(q.compatible)
       THEN LET least_loaded_server ==
                    IF q.least = << >> THEN None ELSE SecondPass(q.least, q.selnow)
            IN IF least_loaded_server = None
               THEN [st EXCEPT !.q = Raise(q, 503, "no capacity")]
               ELSE [st EXCEPT !.q = [q EXCEPT !.pc = "forward",
                                               !.chosen = least_loaded_server]]
       ELSE LET u == q.compatible[q.idx]
                b == GetServerLoadBegin(st.c, u, now)
            IN IF b.sent
               THEN [c |-> b.c, q |-> [q EXCEPT !.pc = "wait_load"]]
               ELSE [c |-> b.c, q |-> LoadResult(q, u, b.ret)]

\* the outbound headers without the filter on the inbound Authorization
OutHeaders_NoFilter(hs) ==
    [k \in {hs[i].k : i \in DOMAIN hs} \cup {"Authorization"} |->
        IF k = "Authorization" THEN Bearer(vllm_token)
        ELSE hs[CHOOSE i \in DOMAIN hs :
                    hs[i].k = k /\ \A j \in DOMAIN hs : hs[j].k = k => j <= i].v]

\* the outbound headers where Authorization is not overwritten
OutHeaders_KeepInbound(hs) ==
    [k \in {hs[i].k : i \in DOMAIN hs} |->
        hs[CHOOSE i \in DOMAIN hs :
              hs[i].k = k /\ \A j \in DOMAIN hs : hs[j].k = k => j <= i].v]

\* proxy_request, step 6: the inbound headers except Authorization, as a dict
\* (the last of several headers of one name stays), then Authorization
OutHeaders(hs) ==
    LET kept == {i \in DOMAIN hs : Lower(hs[i].k) # "authorization"}
    IN [k \in {hs[i].k : i \in kept} \cup {"Authorization"} |->
          IF k = "Authorization" THEN Bearer(vllm_token)
          ELSE hs[CHOOSE i \in kept :
                      hs[i].k = k /\ \A j \in kept : hs[j].k = k => j <= i].v]

\* proxy_request, step 6: the headers, then the request goes out.  In stream
\* mode "await client.stream(...)" awaits an async context manager: a
\* TypeError, which is no httpx.RequestError, so nothing is sent and the
\* framework answers 500.
ForwardStep(st) ==
    LET q == [st.q EXCEPT !.out_headers = OutHeaders(st.q.in_headers)]
    IN IF q.stream
       THEN [st EXCEPT !.q = [Raise(q, 500, "internal server error")
                                EXCEPT !.received = <<"Internal Server Error">>]]
       ELSE [st EXCEPT !.q = [q EXCEPT !.pc = "wait_forward", !.sent = TRUE]]

\* handle_models_request: what one get_model_on_server result does to the loop
ModelsResult(q, u, server_models) ==
    LET q1 == [q EXCEPT !.obs_model = Put(@, u, server_models), !.idx = @ + 1,
                        !.pc = "models"]
    IN IF server_models # None
       THEN [q1 EXCEPT !.models_data = Append(@, server_models[1])]
       ELSE q1

\* handle_models_request, the formatting that keeps the created value of the
\* first descriptor of each id
RECURSIVE FormatFrom_KeepFirst(_, _, _)
FormatFrom_KeepFirst(models_data, i, formatted_models) ==
    IF i > Len(models_data) THEN formatted_models
    ELSE LET model == models_data[i]
             same == {j \in DOMAIN formatted_models : formatted_models[j].id = model.id}
         IN IF same # {}
            THEN FormatFrom_KeepFirst(models_data, i + 1, formatted_models)
            ELSE FormatFrom_KeepFirst(models_data, i + 1,
                     Append(formatted_models, [id |-> model.id, created |-> model.created]))

\* handle_models_request: formatted_models, a dict in insertion order, after
\* the descriptors from the i-th on
RECURSIVE FormatFrom(_, _, _)
FormatFrom(models_data, i, formatted_models) ==
    IF i > Len(models_data) THEN formatted_models
    ELSE LET model == models_data[i]
             same == {j \in DOMAIN formatted_models : formatted_models[j].id = model.id}
         IN IF same # {}
            THEN LET j == CHOOSE j \in same : TRUE
                     least == IF model.created < formatted_models[j].created
                              THEN model.created ELSE formatted_models[j].created
                 IN FormatFrom(models_data, i + 1,
                               [formatted_models EXCEPT ![j].created = least])
            ELSE FormatFrom(models_data, i + 1,
                     Append(formatted_models, [id |-> model.id, created |-> model.created]))

\* the loop of handle_models_request without the test of the group
ModelsStep_AllGroups(st) ==
    LET q == st.q
    IN IF q.idx > Len(servers)
       THEN [st EXCEPT !.q = [q EXCEPT !.pc = "done", !.status = 200,
                                       !.detail = "models",
                                       !.received = FormatFrom(q.models_data, 1, << >>)]]
       ELSE LET u == servers[q.idx].url
                r == IsServerHealthy(st.c.h, u, now)
                q1 == [q EXCEPT !.obs_healthy = Put(@, u, r.ret)]
                c1 == [st.c EXCEPT !.h = r.h]
            IN IF ~r.ret
               THEN [c |-> c1, q |-> [q1 EXCEPT !.idx = @ + 1]]
               ELSE LET b == GetModelOnServerBegin(c1, u, now)
                    IN IF b.sent
                       THEN [c |-> b.c, q |-> [q1 EXCEPT !.pc = "wait_models"]]
                       ELSE [c |-> b.c, q |-> ModelsResult(q1, u, b.ret)]

\* handle_models_request: the loop over self.servers, up to the next HTTP
\* request; at its end the formatting and the response.
ModelsStep(st) ==
    LET q == st.q
    IN IF q.idx > Len(servers)
       THEN [st EXCEPT !.q = [q EXCEPT !.pc = "done", !.status = 200,
                                       !.detail = "models",
                                       !.received = FormatFrom(q.models_data, 1, << >>)]]
       ELSE LET s == servers[q.idx]
                u == s.url
            IN IF q.group \notin s.allowed_groups
               THEN [st EXCEPT !.q = [q EXCEPT !.idx = @ + 1]]
               ELSE LET r == IsServerHealthy(st.c.h, u, now)
                        open == u \in DOMAIN st.c.h.cbt /\ now < st.c.h.cbt[u]
                        q1 == [q EXCEPT !.obs_healthy = Put(@, u, r.ret),
                                        !.obs_open = IF open THEN @ \cup {u} ELSE @]
                        c1 == [st.c EXCEPT !.h = r.h]
                    IN IF ~r.ret
                       THEN [c |-> c1, q |-> [q1 EXCEPT !.idx = @ + 1]]
                       ELSE LET b == GetModelOnServerBegin(c1, u, now)
                            IN IF b.sent
                               THEN [c |-> b.c, q |-> [q1 EXCEPT !.pc = "wait_models"]]
                               ELSE [c |-> b.c, q |-> ModelsResult(q1, u, b.ret)]

\* One request handler runs until its next outbound HTTP request or its end.
RECURSIVE Run(_)
Run(st) ==
    CASE st.q.pc = "compat" -> Run(CompatStep(st))
      [] st.q.pc = "models" -> Run(ModelsStep(st))
      [] st.q.pc = "select" -> Run(SelectStep(st))
      [] st.q.pc = "forward" -> Run(ForwardStep(st))
      [] OTHER -> st

\* the handler of request r goes on from st
Resume(r, st) ==
    LET final == Run(st)
    IN /\ SetC(final.c)
       /\ req' = [req EXCEPT ![r] = final.q]
       /\ ev' = Ev("proxy_request", Unlisted, None, FALSE)

Answered == {r \in DOMAIN req : req[r].pc = "done"}

\* the handler dropping the cached model descriptors on every request
Receive_ClearsCache(r, inp) ==
    /\ req[r].pc = "idle"
    /\ Resume(r, [c |-> [C EXCEPT !.mdc = << >>],
                  q |-> ProxyRequestBegin([req[r] EXCEPT !.after = Answered], inp)])
    /\ UNCHANGED <<now, cfg, inflight, crossed_at>>

\* one entry of the /health response, with every backend reported healthy
HealthEntry_AlwaysHealthy(u) ==
    [url |-> u, healthy |-> TRUE,
     metrics_cached |-> IF u \in DOMAIN metrics_cache THEN Some(metrics_cache[u]) ELSE None,
     model_cached |-> IF u \in DOMAIN model_cache THEN Some(model_cache[u]) ELSE None]

\* health_check: the entry appended for one backend; .get(server_url) of a
\* cache gives the entry or None
HealthEntry(u) ==
    [url |-> u, healthy |-> HealthyFlag(server_health, u),
     metrics_cached |-> IF u \in DOMAIN metrics_cache THEN Some(metrics_cache[u]) ELSE None,
     model_cached |-> IF u \in DOMAIN model_cache THEN Some(model_cache[u]) ELSE None]

\* A client sends GET /health: the handler has no await and answers in one
\* step, reading the registry, the health map and the two caches.
HealthCheck(r) ==
    /\ req[r].pc = "idle"
    /\ LET health_data == [i \in DOMAIN servers |-> HealthEntry(servers[i].url)]
       IN /\ req' = [req EXCEPT ![r] = [@ EXCEPT !.pc = "done", !.path = "/health",
                                                 !.status = 200,
                                                 !.received = health_data,
                                                 !.after = Answered]]
          /\ ev' = Ev("health_check", Unlisted, Some(health_data), FALSE)
    /\ UNCHANGED <<now, cfg, server_health, failure_counts, circuit_breaker_timeout,
                   metrics_cache, model_cache, inflight, crossed_at>>

\* A client sends inp: POST /v1/{path}.
Receive(r, inp) ==
    /\ req[r].pc = "idle"
    /\ Resume(r, [c |-> C, q |-> ProxyRequestBegin([req[r] EXCEPT !.after = Answered], inp)])
    /\ UNCHANGED <<now, cfg, inflight, crossed_at>>

\* the backend get_compatible_servers waits for
ModelUrl(r) == servers[req[r].idx].url

\* get_model_on_server has returned to the loop that called it
ModelResult(q, u, model_info) ==
    IF q.pc = "wait_models" THEN ModelsResult(q, u, model_info)
    ELSE CompatResult(q, u, model_info)

\* get_compatible_servers or handle_models_request: the /v1/models response
\* arrives with status 2xx; with an empty or absent data array
\* get_model_on_server falls off its end and returns None.
ReqModelOk(r) ==
    LET u == ModelUrl(r)
    IN /\ req[r].pc \in {"wait_model", "wait_models"}
       /\ Resume(r, [c |-> IF hosted[u] # None
                           THEN GetModelOnServerOk(C, u, hosted[u][1], now)
                           ELSE C,
                     q |-> ModelResult(req[r], u, hosted[u])])
       /\ UNCHANGED <<now, cfg, inflight, crossed_at>>

ReqModelFail(r) ==
    LET u == ModelUrl(r)
        c == GetModelOnServerFail(C, u, now)
    IN /\ req[r].pc \in {"wait_model", "wait_models"}
       /\ Resume(r, [c |-> c, q |-> ModelResult(req[r], u, None)])
       /\ crossed_at' = Crossing(u, H, c.h)
       /\ UNCHANGED <<now, cfg, inflight>>

\* the backend get_least_utilized_server waits for
LoadUrl(r) == req[r].compatible[req[r].idx]

\* get_least_utilized_server: the /metrics response arrives
ReqLoadOk(r, load) ==
    LET u == LoadUrl(r)
    IN /\ req[r].pc = "wait_load"
       /\ Resume(r, [c |-> GetServerLoadOk(C, u, load, now),
                     q |-> LoadResult(req[r], u, Some(load))])
       /\ UNCHANGED <<now, cfg, inflight, crossed_at>>

ReqLoadFail(r) ==
    LET u == LoadUrl(r)
        c == GetServerLoadFail(C, u, now)
    IN /\ req[r].pc = "wait_load"
       /\ Resume(r, [c |-> c, q |-> LoadResult(req[r], u, None)])
       /\ crossed_at' = Crossing(u, H, c.h)
       /\ UNCHANGED <<now, cfg, inflight>>

UpstreamStatus == {200, 429, 500}

\* proxy_request, buffered mode: the backend's whole response has arrived;
\* the client gets its status and its body in one JSONResponse
ForwardOk(r, status) ==
    LET plan == upstream[req[r].chosen[1]]
    IN /\ req[r].pc = "wait_forward"
       /\ plan # Down
       /\ ~plan[1].breaks
       /\ plan[1].status = status
       /\ req' = [req EXCEPT ![r] = [@ EXCEPT !.pc = "done", !.status = status,
                                              !.detail = "upstream",
                                              !.received = plan[1].chunks]]
       /\ ev' = Ev("proxy_request", Unlisted, None, FALSE)
       /\ UNCHANGED <<now, cfg, server_health, failure_counts, circuit_breaker_timeout,
                      metrics_cache, model_cache, inflight, crossed_at>>

\* proxy_request, buffered mode: httpx.RequestError while forwarding (the
\* connection is refused, or it fails before the body is complete)
ForwardError(r) ==
    LET plan == upstream[req[r].chosen[1]]
    IN /\ req[r].pc = "wait_forward"
       /\ IF plan = Down THEN TRUE ELSE plan[1].breaks
       /\ req' = [req EXCEPT ![r] = [Raise(@, 502, "bad gateway")
                                       EXCEPT !.received = <<"Error communicating with backend server">>]]
       /\ ev' = Ev("proxy_request", Unlisted, None, FALSE)
       /\ UNCHANGED <<now, cfg, server_health, failure_counts, circuit_breaker_timeout,
                      metrics_cache, model_cache, inflight, crossed_at>>

\* --------------------------------------------------------------- /metrics

\* the one gauge of a backend's /metrics text that the model keeps
MetricName == "vllm:num_requests_running"

\* parse_metrics: the values of one backend's text, aggregated by name and
\* labels, are appended to the list under the metric's name
ParseMetrics(load, aggregated_metrics) ==
    Put(aggregated_metrics, MetricName,
        Append(IF MetricName \in DOMAIN aggregated_metrics
               THEN aggregated_metrics[MetricName] ELSE << >>,
               [kind |-> "value", value |-> load]))

\* get_aggregated_metrics: the loop goes on to the next backend, or the
\* response is returned
NextBackend(q) ==
    IF q.idx >= Len(servers)
    THEN [q EXCEPT !.pc = "done", !.status = 200, !.detail = "metrics"]
    ELSE [q EXCEPT !.idx = @ + 1]

\* GET /metrics arrives: get_aggregated_metrics asks the first backend
GetAggregatedMetrics(r) ==
    /\ req[r].pc = "idle"
    /\ req' = [req EXCEPT ![r] =
                 IF servers = << >>
                 THEN [@ EXCEPT !.path = "/metrics", !.pc = "done", !.status = 200,
                                !.detail = "metrics", !.after = Answered]
                 ELSE [@ EXCEPT !.path = "/metrics", !.pc = "wait_agg", !.idx = 1,
                                !.after = Answered]]
    /\ ev' = Ev("get_aggregated_metrics", Unlisted, None, FALSE)
    /\ UNCHANGED <<now, cfg, server_health, failure_counts, circuit_breaker_timeout,
                   metrics_cache, model_cache, inflight, crossed_at>>

\* get_aggregated_metrics: a backend answers 2xx with its metrics text
AggOk(r, load) ==
    LET u == servers[req[r].idx].url
    IN /\ req[r].pc = "wait_agg"
       /\ req' = [req EXCEPT ![r] =
                    NextBackend([@ EXCEPT !.obs_load = Put(@, u, Some(load)),
                                          !.metrics_data = ParseMetrics(load, @)])]
       /\ ev' = Ev("get_aggregated_metrics", u, None, FALSE)
       /\ UNCHANGED <<now, cfg, server_health, failure_counts, circuit_breaker_timeout,
                      metrics_cache, model_cache, inflight, crossed_at>>

\* get_aggregated_metrics: httpx.RequestError (transport error or timeout);
\* the loop logs it and continues
AggFail(r) ==
    LET u == servers[req[r].idx].url
    IN /\ req[r].pc = "wait_agg"
       /\ req' = [req EXCEPT ![r] = NextBackend([@ EXCEPT !.obs_load = Put(@, u, None)])]
       /\ ev' = Ev("get_aggregated_metrics", u, None, FALSE)
       /\ UNCHANGED <<now, cfg, server_health, failure_counts, circuit_breaker_timeout,
                      metrics_cache, model_cache, inflight, crossed_at>>

\* get_aggregated_metrics: a backend answers with a status that is not 2xx;
\* raise_for_status raises httpx.HTTPStatusError, which is no
\* httpx.RequestError, so it leaves the handler and the framework answers 500
AggBadStatus(r) ==
    LET u == servers[req[r].idx].url
    IN /\ req[r].pc = "wait_agg"
       /\ req' = [req EXCEPT ![r] =
                    [Raise([@ EXCEPT !.obs_load = Put(@, u, None)],
                           500, "internal server error")
                       EXCEPT !.received = <<"Internal Server Error">>]]
       /\ ev' = Ev("get_aggregated_metrics", u, None, FALSE)
       /\ UNCHANGED <<now, cfg, server_health, failure_counts, circuit_breaker_timeout,
                      metrics_cache, model_cache, inflight, crossed_at>>

\* ------------------------------------------------------------------- time

\* A TTLCache entry passes its ttl (0.5 s for metrics, 5 s for models).
ExpireMetrics(u) ==
    /\ u \in DOMAIN metrics_cache
    /\ metrics_cache' = Del(metrics_cache, u)
    /\ ev' = Ev("expire", u, None, FALSE)
    /\ UNCHANGED <<now, cfg, server_health, failure_counts, circuit_breaker_timeout,
                   model_cache, inflight, crossed_at, req>>

ExpireModel(u) ==
    /\ u \in DOMAIN model_cache
    /\ model_cache' = Del(model_cache, u)
    /\ ev' = Ev("expire", u, None, FALSE)
    /\ UNCHANGED <<now, cfg, server_health, failure_counts, circuit_breaker_timeout,
                   metrics_cache, inflight, crossed_at, req>>

\* The clock advances by one tick.  A tick is a unit of cooldown_period
\* (minutes), longer than both cache ttls, so no cache entry outlives it.
Tick ==
    /\ now < MaxTime
    /\ now' = now + 1
    /\ metrics_cache' = << >>
    /\ model_cache' = << >>
    /\ ev' = Ev("tick", Unlisted, None, FALSE)
    /\ UNCHANGED <<cfg, server_health, failure_counts, circuit_breaker_timeout,
                   inflight, crossed_at, req>>

\* ------------------------------------------------------------ configuration

\* One registry entry, as load_config builds it.
Server(u, groups, last_utilization) ==
    [url |-> u, allowed_groups |-> groups, last_utilization |-> last_utilization]

RegUrls == {servers[i].url : i \in DOMAIN servers}

\* The composer after __init__: load_config has built the registry and the
\* health map, nothing has failed, both caches are empty.
InitComposerWith(reg, t0, token) ==
    /\ now = t0
    /\ servers = reg
    /\ max_failures \in 1..MaxFailuresCfg
    /\ server_health = [u \in {reg[i].url : i \in DOMAIN reg} |->
                          [healthy |-> TRUE, last_checked |-> None]]
    /\ failure_counts = [u \in Urls |-> 0]
    /\ circuit_breaker_timeout = << >>
    /\ metrics_cache = << >>
    /\ model_cache = << >>
    /\ group_tokens = <<[group |-> "g1", tokens |-> {"t1", "t3"}],
                        [group |-> "g2", tokens |-> {"t2", "t3"}]>>
    /\ vllm_token = token
    /\ inflight = [u \in Urls |-> [k \in Kinds |-> 0]]
    /\ crossed_at = [u \in Urls |-> None]
    /\ ev = Ev("init", Unlisted, None, FALSE)

InitComposer(reg, t0) == InitComposerWith(reg, t0, "vt")

\* ------------------------------------------- specification: probes and breaker

\* One backend that hosts a model; every health-related dict is keyed by URL
\* and no method reads another URL's entry.
Init ==
    /\ InitComposer(<<Server("u1", {"g1"}, None)>>, 0)
    /\ clients = {}
    /\ hosted \in [Urls -> {None, Some(Descriptor("m1", 1))}]
    /\ \A u \in Urls \ {"u1"} : hosted[u] = None
    /\ upstream = [u \in Urls |-> Down]
    /\ req = << >>

Next ==
    \/ \E u \in RegUrls : GetServerLoad(u)
    \/ \E u \in RegUrls, load \in Loads : MetricsSucceed(u, load)
    \/ \E u \in RegUrls : MetricsFail(u)
    \/ \E u \in RegUrls : GetModelOnServer(u)
    \/ \E u \in RegUrls : ModelSucceed(u)
    \/ \E u \in RegUrls : ModelEmpty(u)
    \/ \E u \in RegUrls : ModelFail(u)
    \/ \E u \in RegUrls \cup {Unlisted} : IsServerHealthyCall(u)
    \/ \E u \in RegUrls : ExpireMetrics(u)
    \/ \E u \in RegUrls : ExpireModel(u)
    \/ Tick

Spec == Init /\ [][Next]_vars

\* ------------------------------------------------- specification: dispatch

\* An inbound request: its headers, its path and its body (json: the body
\* parses as a JSON object; model and stream: the fields of that object).
Inbound(headers, path, body) == [headers |-> headers, path |-> path, body |-> body]
Body(model, stream) == [json |-> TRUE, model |-> model, stream |-> stream]
NotJson == [json |-> FALSE, model |-> None, stream |-> FALSE]
Auth(v) == <<Header("authorization", v)>>

\* One request at a time against three backends.  The composer has been up
\* for two ticks; each backend has been used at tick 0, at tick 1 or never,
\* and the third backend hosts m1 or m2.
InitDispatch ==
    \E lu \in [1..3 -> {None, Some(0), Some(1)}],
       h3 \in {Some(Descriptor("m1", 3)), Some(Descriptor("m2", 3))} :
        /\ InitComposer(<<Server("u1", {"g1"}, lu[1]),
                          Server("u2", {"g1", "g2"}, lu[2]),
                          Server("u3", {"g1", "g2"}, lu[3])>>, 2)
        /\ hosted = [u \in Urls |->
                        CASE u = "u1" -> Some(Descriptor("m1", 1))
                          [] u = "u2" -> Some(Descriptor("m1", 2))
                          [] u = "u3" -> h3
                          [] OTHER -> None]
        /\ upstream = [u \in Urls |->
                          CASE u = "u1" -> Answer(200, <<"c1", "c2">>, FALSE)
                            [] u = "u2" -> Answer(500, <<"e1">>, FALSE)
                            [] OTHER -> Down]
        /\ clients =
             {Inbound(<< >>, "chat/completions", Body(Some("m1"), FALSE)),
              Inbound(Auth(Plain("t1")), "chat/completions", Body(Some("m1"), FALSE)),
              Inbound(Auth(Bearer("t9")), "chat/completions", Body(Some("m1"), FALSE)),
              Inbound(Auth(Bearer("t1")), "tokenize", Body(Some("m1"), FALSE)),
              Inbound(Auth(Bearer("t1")), "completions", NotJson),
              Inbound(<< >>, "tokenize", NotJson),
              Inbound(Auth(Bearer("t9")), "tokenize", NotJson),
              Inbound(Auth(Bearer("t1")), "tokenize", NotJson),
              Inbound(Auth(Bearer("t1")), "completions", Body(None, FALSE)),
              Inbound(Auth(Bearer("t1")), "chat/completions", Body(Some("m1"), FALSE)),
              Inbound(Auth(Bearer("t1")), "chat/completions", Body(Some("m1"), TRUE)),
              Inbound(<<Header("X-Trace", Plain("a")),
                        Header("Authorization", Bearer("t2")),
                        Header("x-trace", Plain("b")),
                        Header("authorization", Bearer("t1"))>>,
                      "embeddings", Body(Some("m1"), FALSE))}
        /\ req = [r \in {"r1"} |-> NoRequest]

NextDispatch ==
    \/ \E r \in DOMAIN req, inp \in clients : Receive(r, inp)
    \/ \E r \in DOMAIN req : ReqModelOk(r)
    \/ \E r \in DOMAIN req : ReqModelFail(r)
    \/ \E r \in DOMAIN req, load \in Loads : ReqLoadOk(r, load)
    \/ \E r \in DOMAIN req : ReqLoadFail(r)
    \/ \E r \in DOMAIN req, status \in UpstreamStatus : ForwardOk(r, status)
    \/ \E r \in DOMAIN req : ForwardError(r)

SpecDispatch == InitDispatch /\ [][NextDispatch]_vars

\* ------------------------------------------- specification: two requests

\* Two requests, which may overlap, for the same model from the same group,
\* against two backends that both host it and were never used.  A metrics
\* entry (ttl 0.5 s) may expire between any two steps; a model entry (ttl 5 s)
\* outlives the two requests.
InitRace ==
    /\ InitComposer(<<Server("u1", {"g1"}, None), Server("u2", {"g1"}, None)>>, 0)
    /\ hosted = [u \in Urls |-> IF u \in {"u1", "u2"}
                                THEN Some(Descriptor("m1", 1)) ELSE None]
    /\ upstream = [u \in Urls |-> IF u = "u1" THEN Answer(200, <<"c1", "c2">>, FALSE)
                                  ELSE Down]
    /\ clients = {Inbound(Auth(Bearer("t1")), "chat/completions",
                          Body(Some("m1"), FALSE))}
    /\ req = [r \in {"r1", "r2"} |-> NoRequest]

NextRace ==
    \/ NextDispatch
    \/ \E u \in RegUrls : ExpireMetrics(u)

SpecRace == InitRace /\ [][NextRace]_vars

\* ------------------------------------------------- specification: health

\* GET /health at any moment of the two requests above: before, between and
\* after their probes, whose results fill the caches and the health map.
NextHealth ==
    \/ NextRace
    \/ \E r \in DOMAIN req : HealthCheck(r)

SpecHealth == InitRace /\ [][NextHealth]_vars

\* ------------------------------------------------ specification: forward

\* One request, buffered or streaming, against three fresh backends that host
\* the model: the first answers 200 with two chunks, the second answers 429,
\* the third is down or fails after its first chunk.  The secrets file gives
\* the backend token a value of its own or the value of a client token.
InitForward ==
    \E token \in {"vt", "t1"}, third \in {Down, Answer(200, <<"c1">>, TRUE)} :
        /\ InitComposerWith(<<Server("u1", {"g1"}, None),
                              Server("u2", {"g1"}, None),
                              Server("u3", {"g1"}, None)>>, 0, token)
        /\ hosted = [u \in Urls |-> IF u \in Registered
                                    THEN Some(Descriptor("m1", 1)) ELSE None]
        /\ upstream = [u \in Urls |->
                          CASE u = "u1" -> Answer(200, <<"c1", "c2">>, FALSE)
                            [] u = "u2" -> Answer(429, <<"e1">>, FALSE)
                            [] u = "u3" -> third
                            [] OTHER -> Down]
        /\ clients =
             {Inbound(Auth(Bearer("t1")), "chat/completions", Body(Some("m1"), FALSE)),
              Inbound(Auth(Bearer("t3")), "chat/completions", Body(Some("m1"), FALSE)),
              Inbound(Auth(Bearer("t2")), "chat/completions", Body(Some("m1"), FALSE)),
              Inbound(Auth(Bearer("t9")), "chat/completions", Body(Some("m1"), FALSE)),
              Inbound(Auth(Bearer("t1")), "chat/completions", Body(Some("m1"), TRUE))}
        /\ req = [r \in {"r1"} |-> NoRequest]

SpecForward == InitForward /\ [][NextDispatch]_vars

\* ------------------------------------------------- specification: models

\* Two requests, which may overlap: GET /v1/models from either group, or a
\* request that one of the four checks rejects.  The first two backends
\* allow both groups, the third only g1; all host m1, with created values
\* neither rising nor falling in registry order, or the third hosts m2.  A
\* model entry may expire between any two steps.
InitModels ==
    \E h3 \in {Descriptor("m1", 3), Descriptor("m2", 3)} :
        /\ InitComposer(<<Server("u1", {"g1", "g2"}, None),
                          Server("u2", {"g1", "g2"}, None),
                          Server("u3", {"g1"}, None)>>, 0)
        /\ hosted = [u \in Urls |->
                        CASE u = "u1" -> Some(Descriptor("m1", 2))
                          [] u = "u2" -> Some(Descriptor("m1", 1))
                          [] u = "u3" -> Some(h3)
                          [] OTHER -> None]
        /\ upstream = [u \in Urls |-> Down]
        /\ clients =
             {Inbound(Auth(Bearer("t1")), "models", NotJson),
              Inbound(Auth(Bearer("t2")), "models", NotJson),
              Inbound(<< >>, "models", NotJson),
              Inbound(Auth(Bearer("t9")), "models", NotJson),
              Inbound(Auth(Bearer("t1")), "tokenize", Body(Some("m1"), FALSE)),
              Inbound(Auth(Bearer("t1")), "completions", Body(None, FALSE))}
        /\ req = [r \in {"r1", "r2"} |-> NoRequest]

NextModels ==
    \/ \E r \in DOMAIN req, inp \in clients : Receive(r, inp)
    \/ \E r \in DOMAIN req : ReqModelOk(r)
    \/ \E r \in DOMAIN req : ReqModelFail(r)
    \/ \E u \in RegUrls : ExpireModel(u)

SpecModels == InitModels /\ [][NextModels]_vars

\* ------------------------------------------------- specification: config

\* A hostname of the configuration file: the scheme it starts with, "" when
\* it starts with neither http:// nor https://, and the rest.
Hostnames ==
    {[scheme |-> "", name |-> "a"], [scheme |-> "http://", name |-> "a"],
     [scheme |-> "https://", name |-> "b"]}

\* one entry of vllm_hosts
Host(hostname, start, end, allowed_groups) ==
    [hostname |-> hostname, ports |-> [start |-> start, end |-> end],
     allowed_groups |-> allowed_groups]

\* the f-string of load_config: the hostname, with http:// in front of it
\* when it starts with neither scheme, then ":" and the port
Url(hostname, port) ==
    [scheme |-> IF hostname.scheme \in {"http://", "https://"}
                THEN hostname.scheme ELSE "http://",
     name |-> hostname.name, port |-> port]

\* the list built for one host with range(start, end)
Expand_Exclusive(host) ==
    [k \in 1..(host.ports.end - host.ports.start) |->
        Server(Url(host.hostname, host.ports.start + k - 1), host.allowed_groups, None)]

\* the list built for one host: one entry per port of range(start, end + 1)
Expand(host) ==
    [k \in 1..(host.ports.end + 1 - host.ports.start) |->
        Server(Url(host.hostname, host.ports.start + k - 1), host.allowed_groups, None)]

RECURSIVE LoadServers(_, _)
\* the loop over vllm_hosts: self.servers.extend(...) for each host
LoadServers(self_servers, vllm_hosts) ==
    IF vllm_hosts = << >> THEN self_servers
    ELSE LoadServers(self_servers \o Expand(Head(vllm_hosts)), Tail(vllm_hosts))

\* the health map load_config builds from self.servers
FreshHealth(self_servers) ==
    [u \in {self_servers[i].url : i \in DOMAIN self_servers} |->
        [healthy |-> TRUE, last_checked |-> None]]

\* the configurations: at most MaxHosts hosts, each with a range of ports
\* that may be empty (start > end) and may overlap another host's
Configs ==
    LET hosts == {Host(hn, a, b, g) : hn \in Hostnames, a \in 1..MaxPort,
                                      b \in 1..MaxPort, g \in {{"g1"}, {"g1", "g2"}}}
    IN UNION {[1..n -> hosts] : n \in 0..MaxHosts}

\* every URL a configuration can give
ConfigUrls == {Url(hn, port) : hn \in Hostnames, port \in 1..MaxPort}

\* __init__ up to its call of load_config: the registry and the dicts are
\* empty, max_failures is 3.
InitConfig ==
    /\ now = 0
    /\ servers = << >>
    /\ max_failures = 3
    /\ server_health = << >>
    /\ failure_counts = [u \in ConfigUrls |-> 0]
    /\ circuit_breaker_timeout = << >>
    /\ metrics_cache = << >>
    /\ model_cache = << >>
    /\ group_tokens = << >>
    /\ vllm_token = "vt"
    /\ hosted = [u \in ConfigUrls |-> None]
    /\ upstream = [u \in ConfigUrls |-> Down]
    /\ clients = {}
    /\ inflight = [u \in ConfigUrls |-> [k \in Kinds |-> 0]]
    /\ crossed_at = [u \in ConfigUrls |-> None]
    /\ req = << >>
    /\ ev = Ev("init", Unlisted, None, FALSE)

\* load_config(config_path), called by __init__, with the file's vllm_hosts
\* and app_settings.max_failures
LoadConfig(vllm_hosts, app_max_failures) ==
    /\ servers' = LoadServers(servers, vllm_hosts)
    /\ max_failures' = app_max_failures
    /\ server_health' = FreshHealth(servers')
    /\ ev' = [op |-> "load_config", url |-> Unlisted, ret |-> None,
              reset |-> FALSE, vllm_hosts |-> vllm_hosts]
    /\ UNCHANGED <<now, group_tokens, vllm_token, hosted, upstream, clients,
                   failure_counts, circuit_breaker_timeout, metrics_cache,
                   model_cache, inflight, crossed_at, req>>

\* Construction, in which __init__ calls load_config once, then the first
\* calls of is_server_healthy.
NextConfig ==
    \/ /\ ev.op = "init"
       /\ \E vllm_hosts \in Configs, m \in 1..MaxFailuresCfg : LoadConfig(vllm_hosts, m)
    \/ \E u \in RegUrls : IsServerHealthyCall(u)

SpecConfig == InitConfig /\ [][NextConfig]_vars

\* ------------------------------------------------ specification: refresh

\* refresh_metrics and refresh_models: one coroutine per registry entry,
\* gathered.  gather makes a task of each coroutine; the tasks start in the
\* order of the list, each runs up to its HTTP request or its return, and
\* the responses arrive in any order.  A task is new, waits for its response
\* or is done; calls counts the probe calls made for it and failed says
\* that its request failed.
Task(u) == [url |-> u, state |-> "new", ret |-> None, calls |-> 0, failed |-> FALSE]

\* the refresh run: idle before the first run, then the tasks of the run of
\* the given kind; runs counts the runs started
NoRun == [pc |-> "idle", kind |-> "metrics", tasks |-> << >>, runs |-> 0]

\* gather returning at the first task that failed
GatherDone_FirstFailure(tasks) ==
    \/ \A i \in DOMAIN tasks : tasks[i].state = "done"
    \/ \E i \in DOMAIN tasks : tasks[i].failed

\* await asyncio.gather(*tasks) returns once every task has returned; no
\* task raises, since the probes catch Exception
GatherDone(tasks) == \A i \in DOMAIN tasks : tasks[i].state = "done"

\* the run after one of its tasks has moved
Gathered(run, tasks) ==
    [run EXCEPT !.tasks = tasks, !.pc = IF GatherDone(tasks) THEN "done" ELSE "refresh"]

\* the probe of the run's kind, up to its HTTP request
ProbeBegin(kind, c, u, t) ==
    IF kind = "metrics" THEN GetServerLoadBegin(c, u, t) ELSE GetModelOnServerBegin(c, u, t)

\* A run starts: the loop over self.servers builds the list of coroutines.
Refresh(r, kind) ==
    /\ req[r].pc \in {"idle", "done"}
    /\ req[r].runs < MaxRuns
    /\ req' = [req EXCEPT ![r] =
                 Gathered([req[r] EXCEPT !.kind = kind, !.runs = @ + 1],
                          [i \in DOMAIN servers |-> Task(servers[i].url)])]
    /\ ev' = Ev("refresh", Unlisted, None, FALSE)
    /\ UNCHANGED <<now, cfg, server_health, failure_counts, circuit_breaker_timeout,
                   metrics_cache, model_cache, inflight, crossed_at>>

\* The next task starts: the health gate and the cache, then the request.
TaskBegin(r, i) ==
    /\ req[r].pc = "refresh"
    /\ i \in DOMAIN req[r].tasks
    /\ req[r].tasks[i].state = "new"
    /\ \A j \in 1..(i - 1) : req[r].tasks[j].state # "new"
    /\ LET u == req[r].tasks[i].url
           b == ProbeBegin(req[r].kind, C, u, now)
       IN /\ SetC(b.c)
          /\ req' = [req EXCEPT ![r] =
                       Gathered(req[r],
                                [req[r].tasks EXCEPT ![i] =
                                    [@ EXCEPT !.state = IF b.sent THEN "wait" ELSE "done",
                                              !.ret = b.ret, !.calls = @ + 1]])]
          /\ ev' = Ev(IF b.sent THEN "task_request" ELSE "task_return", u, b.ret, FALSE)
    /\ UNCHANGED <<now, cfg, inflight, crossed_at>>

\* the task's request is answered 2xx: a load, a descriptor, or an empty
\* data array when the backend hosts no model
TaskOk(r, i, load) ==
    /\ req[r].pc = "refresh"
    /\ i \in DOMAIN req[r].tasks
    /\ req[r].tasks[i].state = "wait"
    /\ LET u == req[r].tasks[i].url
           ret == IF req[r].kind = "metrics" THEN Some(load) ELSE hosted[u]
           c == IF req[r].kind = "metrics" THEN GetServerLoadOk(C, u, load, now)
                ELSE IF hosted[u] = None THEN GetModelOnServerEmpty(C, u, now)
                ELSE GetModelOnServerOk(C, u, hosted[u][1], now)
       IN /\ SetC(c)
          /\ req' = [req EXCEPT ![r] =
                       Gathered(req[r],
                                [req[r].tasks EXCEPT ![i] =
                                    [@ EXCEPT !.state = "done", !.ret = ret]])]
          /\ ev' = Ev("task_ok", u, ret, FALSE)
    /\ UNCHANGED <<now, cfg, inflight, crossed_at>>

\* the task's request fails
TaskFail(r, i) ==
    /\ req[r].pc = "refresh"
    /\ i \in DOMAIN req[r].tasks
    /\ req[r].tasks[i].state = "wait"
    /\ LET u == req[r].tasks[i].url
           c == IF req[r].kind = "metrics" THEN GetServerLoadFail(C, u, now)
                ELSE GetModelOnServerFail(C, u, now)
       IN /\ SetC(c)
          /\ crossed_at' = Crossing(u, H, c.h)
          /\ req' = [req EXCEPT ![r] =
                       Gathered(req[r],
                                [req[r].tasks EXCEPT ![i] =
                                    [@ EXCEPT !.state = "done", !.ret = None,
                                              !.failed = TRUE]])]
          /\ ev' = Ev("task_fail", u, None, FALSE)
    /\ UNCHANGED <<now, cfg, inflight>>

\* Two backends, the first hosting a model, and up to MaxRuns runs, each of
\* either kind; the clock may advance between any two steps.
InitRefresh ==
    /\ InitComposer(<<Server("u1", {"g1"}, None), Server("u2", {"g1"}, None)>>, 0)
    /\ hosted = [u \in Urls |-> IF u = "u1" THEN Some(Descriptor("m1", 1)) ELSE None]
    /\ upstream = [u \in Urls |-> Down]
    /\ clients = {}
    /\ req = [r \in {"refresh"} |-> NoRun]

NextRefresh ==
    \/ \E r \in DOMAIN req, kind \in Kinds : Refresh(r, kind)
    \/ \E r \in DOMAIN req, i \in 1..Len(servers) : TaskBegin(r, i)
    \/ \E r \in DOMAIN req, i \in 1..Len(servers), load \in Loads : TaskOk(r, i, load)
    \/ \E r \in DOMAIN req, i \in 1..Len(servers) : TaskFail(r, i)
    \/ Tick

SpecRefresh == InitRefresh /\ [][NextRefresh]_vars

\* ------------------------------------------------- specification: reload

MaxServers == 4        \* a reload goes through while the registry stays this short

\* the configuration the composer was built with, and the files a reload
\* may find: the same file, one that drops the first port, one that drops
\* the second port and adds a host
StartConfig == <<Host([scheme |-> "", name |-> "a"], 1, 2, {"g1"})>>
ReloadConfigs ==
    {StartConfig,
     <<Host([scheme |-> "", name |-> "a"], 2, 2, {"g1"})>>,
     <<Host([scheme |-> "", name |-> "a"], 1, 1, {"g1"}),
       Host([scheme |-> "https://", name |-> "b"], 1, 1, {"g1"})>>}

\* the URLs of a configuration
UrlsOf(vllm_hosts) ==
    UNION {{Url(vllm_hosts[n].hostname, port) :
               port \in vllm_hosts[n].ports.start..vllm_hosts[n].ports.end} :
           n \in DOMAIN vllm_hosts}

\* The composer built with StartConfig; every backend hosts the model, and
\* all but the second port of host a answer a forwarded request; one client
\* of group g1.
InitReload ==
    /\ now = 0
    /\ servers = LoadServers(<< >>, StartConfig)
    /\ max_failures \in 1..MaxFailuresCfg
    /\ server_health = FreshHealth(servers)
    /\ failure_counts = [u \in ConfigUrls |-> 0]
    /\ circuit_breaker_timeout = << >>
    /\ metrics_cache = << >>
    /\ model_cache = << >>
    /\ group_tokens = <<[group |-> "g1", tokens |-> {"t1", "t3"}],
                        [group |-> "g2", tokens |-> {"t2", "t3"}]>>
    /\ vllm_token = "vt"
    /\ hosted = [u \in ConfigUrls |-> Some(Descriptor("m1", 1))]
    /\ upstream = [u \in ConfigUrls |->
                      IF u = Url([scheme |-> "", name |-> "a"], 2) THEN Down
                      ELSE Answer(200, <<"c1">>, FALSE)]
    /\ clients = {Inbound(Auth(Bearer("t1")), "chat/completions",
                          Body(Some("m1"), FALSE))}
    /\ inflight = [u \in ConfigUrls |-> [k \in Kinds |-> 0]]
    /\ crossed_at = [u \in ConfigUrls |-> None]
    /\ req = [r \in {"r1"} |-> NoRequest]
    /\ ev = Ev("init", Unlisted, None, FALSE)

\* load_config is called again, with the file as it is now; max_failures is
\* as before.
Reload(vllm_hosts) ==
    /\ Len(LoadServers(servers, vllm_hosts)) <= MaxServers
    /\ LoadConfig(vllm_hosts, max_failures)

NextReload ==
    \/ NextDispatch
    \/ \E vllm_hosts \in ReloadConfigs : Reload(vllm_hosts)

SpecReload == InitReload /\ [][NextReload]_vars

\* --------------------------------------------------- specification: load

\* The text of a backend's /metrics response, as the Prometheus client of a
\* vLLM server writes it.  A line is head, name, labels, a blank and the
\* sample: head is "" or the blanks or the "# HELP " in front of the name,
\* name is the metric's name as the word the two prefixes are compared with
\* and what follows it, and the sample is a gauge value, kept in tenths and
\* written as repr(float) writes it ("3.0") or as an integer ("3").
Line(head, name, labels, tenths, form) ==
    [head |-> head, name |-> name, labels |-> labels, tenths |-> tenths, form |-> form]

Digits == <<"0", "1", "2", "3", "4", "5", "6", "7", "8", "9">>
IsDigit(ch) == \E d \in DOMAIN Digits : Digits[d] = ch
DigitValue(ch) == (CHOOSE d \in DOMAIN Digits : Digits[d] = ch) - 1

RECURSIVE Decimal(_)
\* the decimal digits of a natural number
Decimal(n) ==
    IF n < 10 THEN <<Digits[n + 1]>> ELSE Decimal(n \div 10) \o <<Digits[(n % 10) + 1]>>

\* the characters of the sample of a line
SampleText(line) ==
    IF line.form = "int" THEN Decimal(line.tenths \div 10)
    ELSE Decimal(line.tenths \div 10) \o <<".">> \o <<Digits[(line.tenths % 10) + 1]>>

\* line.strip(): the blanks in front of the name are removed
Strip(line) == IF line.head = " " THEN [line EXCEPT !.head = ""] ELSE line

\* line.startswith(prefix)
StartsWith(line, prefix) == line.head = "" /\ line.name[1] = prefix

\* the characters match \d+
AllDigits(chars) == chars # << >> /\ \A i \in DOMAIN chars : IsDigit(chars[i])

\* the characters match \d+(\.\d+)?
IsNumber(chars) ==
    \/ AllDigits(chars)
    \/ \E k \in DOMAIN chars :
          /\ chars[k] = "."
          /\ AllDigits(SubSeq(chars, 1, k - 1))
          /\ AllDigits(SubSeq(chars, k + 1, Len(chars)))

\* re.search(r'(\d+(\.\d+)?)$', line): the leftmost match that ends the
\* line; the blank in front of the sample keeps it inside the sample
Search(line) ==
    LET chars == SampleText(line)
        starts == {i \in DOMAIN chars : IsNumber(SubSeq(chars, i, Len(chars)))}
    IN IF starts = {} THEN None
       ELSE Some(SubSeq(chars, CHOOSE i \in starts : \A j \in starts : i <= j, Len(chars)))

RECURSIVE Natural(_)
\* the number a string of digits denotes
Natural(chars) ==
    IF chars = << >> THEN 0
    ELSE 10 * Natural(SubSeq(chars, 1, Len(chars) - 1)) + DigitValue(chars[Len(chars)])

\* float(match.group(1)), in tenths
Float(chars) ==
    IF \E k \in DOMAIN chars : chars[k] = "."
    THEN LET k == CHOOSE k \in DOMAIN chars : chars[k] = "."
         IN 10 * Natural(SubSeq(chars, 1, k - 1)) + DigitValue(chars[k + 1])
    ELSE 10 * Natural(chars)

RECURSIVE ScanLines_RunningOnly(_, _, _)
\* the loop without its elif branch
ScanLines_RunningOnly(metrics_data, current_requests, pending_requests) ==
    IF metrics_data = << >> THEN current_requests + pending_requests
    ELSE LET line == Strip(Head(metrics_data))
             match == Search(line)
         IN IF StartsWith(line, "vllm:num_requests_running") /\ match # None
            THEN ScanLines_RunningOnly(Tail(metrics_data),
                                       current_requests + Float(match[1]), pending_requests)
            ELSE ScanLines_RunningOnly(Tail(metrics_data),
                                       current_requests, pending_requests)

RECURSIVE ScanLines(_, _, _)
\* get_server_load: the loop over metrics_data.splitlines() and total_load
ScanLines(metrics_data, current_requests, pending_requests) ==
    IF metrics_data = << >> THEN current_requests + pending_requests
    ELSE LET line == Strip(Head(metrics_data))
             match == Search(line)
         IN IF StartsWith(line, "vllm:num_requests_running")
            THEN ScanLines(Tail(metrics_data),
                           IF match # None THEN current_requests + Float(match[1])
                           ELSE current_requests,
                           pending_requests)
            ELSE IF StartsWith(line, "vllm:num_requests_waiting")
            THEN ScanLines(Tail(metrics_data), current_requests,
                           IF match # None THEN pending_requests + Float(match[1])
                           ELSE pending_requests)
            ELSE ScanLines(Tail(metrics_data), current_requests, pending_requests)

\* the lines a text is made of: the two gauges, with and without labels,
\* with a longer name, indented, their HELP lines and another gauge
MetricLines ==
    {Line("", <<"vllm:num_requests_running", "">>, "{model_name=\"m1\"}", 30, "float"),
     Line("", <<"vllm:num_requests_running", "">>, "", 120, "int"),
     Line(" ", <<"vllm:num_requests_running", "_total">>, "", 5, "float"),
     Line("", <<"vllm:num_requests_waiting", "">>, "{model_name=\"m1\"}", 20, "float"),
     Line(" ", <<"vllm:num_requests_waiting", "">>, "", 0, "float"),
     Line("# HELP ", <<"vllm:num_requests_running", "">>, "", 70, "int"),
     Line("", <<"vllm:num_requests_swapped", "">>, "{model_name=\"m1\"}", 40, "float"),
     Line("", <<"vllm:gpu_cache_usage_perc", "">>, "", 5, "float")}

MetricsTexts == UNION {[1..n -> MetricLines] : n \in 0..MaxLines}

\* One backend whose /metrics answers with a text: upstream holds the text
\* as the chunks of the answer.
InitLoad ==
    \E metrics_data \in MetricsTexts :
        /\ InitComposer(<<Server("u1", {"g1"}, None)>>, 0)
        /\ hosted = [u \in Urls |-> None]
        /\ upstream = [u \in Urls |-> IF u = "u1" THEN Answer(200, metrics_data, FALSE)
                                      ELSE Down]
        /\ clients = {}
        /\ req = << >>

\* the 2xx response to a metrics request arrives with the backend's text
MetricsRespond(u) ==
    /\ upstream[u] # None
    /\ MetricsSucceed(u, ScanLines(upstream[u][1].chunks, 0, 0))

NextLoad ==
    \/ \E u \in RegUrls : GetServerLoad(u)
    \/ \E u \in RegUrls : MetricsRespond(u)
    \/ \E u \in RegUrls : ExpireMetrics(u)

SpecLoad == InitLoad /\ [][NextLoad]_vars

\* ------------------------------------------------ specification: metrics

\* Two requests GET /metrics, which may overlap, against three backends.
InitMetrics ==
    /\ InitComposer(<<Server("u1", {"g1"}, None),
                      Server("u2", {"g1", "g2"}, None),
                      Server("u3", {"g2"}, None)>>, 0)
    /\ hosted = [u \in Urls |-> None]
    /\ upstream = [u \in Urls |-> Down]
    /\ clients = {}
    /\ req = [r \in {"r1", "r2"} |-> NoRequest]

NextMetrics ==
    \/ \E r \in DOMAIN req : GetAggregatedMetrics(r)
    \/ \E r \in DOMAIN req, load \in Loads : AggOk(r, load)
    \/ \E r \in DOMAIN req : AggFail(r)
    \/ \E r \in DOMAIN req : AggBadStatus(r)

SpecMetrics == InitMetrics /\ [][NextMetrics]_vars

\* ------------------------------------------------------------------ claims

\* C1: a backend whose failure count is at least max_failures is reported
\* unhealthy by is_server_healthy at every instant before cooldown_period has
\* elapsed since the failure that reached the threshold.
C1_OpenBreakerBlocks ==
    \A u \in Urls :
        failure_counts[u] >= max_failures =>
            /\ crossed_at[u] # None
            /\ now < crossed_at[u][1] + cooldown_period
                 => ~IsServerHealthy(H, u, now).ret

\* is_server_healthy has just answered false for a backend at its threshold,
\* one tick into the cool-down.
C1_Witness ==
    \E u \in Urls :
        /\ failure_counts[u] >= max_failures
        /\ crossed_at[u] # None
        /\ now > crossed_at[u][1]
        /\ now < crossed_at[u][1] + cooldown_period
        /\ ev = Ev("is_server_healthy", u, Some(FALSE), FALSE)

\* C2: is_server_healthy answers false while circuit_breaker_timeout is later
\* than now, whatever the healthy flag; with no breaker timestamp pending it
\* answers the healthy flag, true for a URL with no health record.
C2_BreakerOverridesFlag ==
    ev.op = "is_server_healthy" =>
        ev.ret = Some(IF /\ ev.url \in DOMAIN circuit_breaker_timeout
                         /\ circuit_breaker_timeout[ev.url] > now
                      THEN FALSE
                      ELSE IF ev.url \in DOMAIN server_health
                           THEN server_health[ev.url].healthy
                           ELSE TRUE)

\* is_server_healthy has just answered false for a backend whose healthy flag
\* is true and whose breaker is open.
C2_Witness ==
    /\ ev.op = "is_server_healthy"
    /\ ev.ret = Some(FALSE)
    /\ ev.url \in DOMAIN circuit_breaker_timeout
    /\ circuit_breaker_timeout[ev.url] > now
    /\ server_health[ev.url].healthy

\* C3: a probe that succeeds (a metrics probe that returns a load, a model
\* probe that returns a descriptor) leaves the backend with a failure count
\* of 0 and healthy = true.
C3_SuccessResets ==
    ev.op \in {"metrics_ok", "model_ok"} =>
        /\ failure_counts[ev.url] = 0
        /\ ev.url \in DOMAIN server_health
        /\ server_health[ev.url].healthy

\* A probe has just succeeded for a backend whose breaker was opened earlier
\* by failures counted while the probe was outstanding.
C3_Witness ==
    /\ ev.op \in {"metrics_ok", "model_ok"}
    /\ ev.url \in DOMAIN circuit_breaker_timeout
    /\ crossed_at[ev.url] # None
    /\ now > crossed_at[ev.url][1]

\* C4: once cooldown_period has elapsed for a backend whose breaker was opened
\* by probe failures, is_server_healthy answers true for it: the call that
\* finds the breaker timestamp elapsed (and deletes it) returns true.
C4_EligibleAfterCooldown ==
    (ev.op = "is_server_healthy" /\ ev.reset) => ev.ret = Some(TRUE)

\* The URLs of a list of URLs, as a set.
Range(seq) == {seq[i] : i \in DOMAIN seq}

\* C5: get_compatible_servers returns, in registry order, exactly the
\* backends that allow the group, for which is_server_healthy returned true
\* and whose model descriptor, as get_model_on_server returned it, has the
\* requested id.
C5_Passes(q, s) ==
    /\ q.group \in s.allowed_groups
    /\ s.url \in DOMAIN q.obs_healthy
    /\ q.obs_healthy[s.url]
    /\ s.url \in DOMAIN q.obs_model
    /\ q.obs_model[s.url] # None
    /\ q.obs_model[s.url][1].id = q.model

C5_Expected(q) ==
    LET passing == SelectSeq(servers, LAMBDA s : C5_Passes(q, s))
    IN [i \in DOMAIN passing |-> passing[i].url]

Probed(q) ==
    {u \in Range(q.compatible) : u \in DOMAIN q.obs_load /\ q.obs_load[u] # None}

\* get_least_utilized_server of app.py on the same probe results: the first
\* backend with load 0, else the first with the smallest load.
RECURSIVE LegacyFrom(_, _, _, _, _)
LegacyFrom(compatible, loads, i, min_load, least_loaded_server) ==
    IF i > Len(compatible) THEN least_loaded_server
    ELSE LET server_load == loads[compatible[i]]
         IN IF server_load = Some(0) THEN Some(compatible[i])
            ELSE IF server_load # None /\ (min_load = None \/ server_load[1] < min_load[1])
            THEN LegacyFrom(compatible, loads, i + 1, server_load, Some(compatible[i]))
            ELSE LegacyFrom(compatible, loads, i + 1, min_load, least_loaded_server)

LegacyLeastUtilized(compatible, loads) == LegacyFrom(compatible, loads, 1, None, None)

\* get_least_utilized_server has returned to request q.
SelectionDone(q) ==
    \/ q.pc = "wait_forward"
    \/ q.pc = "done" /\ q.detail \in {"no capacity", "internal server error",
                                     "upstream", "bad gateway"}

\* C6: the backend get_least_utilized_server returns is one whose load probe
\* returned a value, and that value is the minimum over the listed backends
\* whose probe returned a value; this holds of the variant of
\* vllmComposer.py and of the variant of app.py.
C6_ReturnsMinimumLoad ==
    \A r \in DOMAIN req :
        LET q == req[r]
            legacy == LegacyLeastUtilized(q.compatible, q.obs_load)
        IN /\ q.chosen # None =>
                /\ q.chosen[1] \in Probed(q)
                /\ \A u \in Probed(q) : q.obs_load[q.chosen[1]][1] <= q.obs_load[u][1]
           /\ (SelectionDone(q) /\ legacy # None) =>
                /\ legacy[1] \in Probed(q)
                /\ \A u \in Probed(q) : q.obs_load[legacy[1]][1] <= q.obs_load[u][1]

\* The returned backend is not the first listed: one listed backend has a
\* larger load and the load probe of another returned None.
C6_Witness ==
    \E r \in DOMAIN req :
        LET q == req[r]
        IN /\ q.chosen # None
           /\ q.chosen[1] # q.compatible[1]
           /\ \E u \in Probed(q) : q.obs_load[u][1] > q.obs_load[q.chosen[1]][1]
           /\ \E u \in Range(q.compatible) : q.obs_load[u] = None

\* The backends tied at the minimum load, in candidate order.
Candidates(q) ==
    SelectSeq(q.compatible,
              LAMBDA u : /\ u \in Probed(q)
                         /\ \A v \in Probed(q) : q.obs_load[u][1] <= q.obs_load[v][1])

LastUtilization(u) == ServerEntry(u)[1].last_utilization

\* C7: among the backends tied at the minimum load get_least_utilized_server
\* returns the first that was never used when there is one, and otherwise one
\* with the largest now - last_utilization.
C7_NeverUsedThenLeastRecent ==
    \A r \in DOMAIN req :
        LET q == req[r]
            cands == Candidates(q)
            never == {i \in DOMAIN cands : LastUtilization(cands[i]) = None}
        IN (SelectionDone(q) /\ cands # << >>) =>
              /\ q.chosen # None
              /\ IF never # {}
                 THEN q.chosen[1] = cands[CHOOSE i \in never : \A j \in never : i <= j]
                 ELSE /\ q.chosen[1] \in Range(cands)
                      /\ \A i \in DOMAIN cands :
                            q.selnow - LastUtilization(q.chosen[1])[1]
                              >= q.selnow - LastUtilization(cands[i])[1]

\* Several backends are tied, all were used before, and the one returned is
\* not the first of them.
C7_Witness ==
    \E r \in DOMAIN req :
        LET q == req[r]
            cands == Candidates(q)
        IN /\ SelectionDone(q)
           /\ Len(cands) >= 2
           /\ \A i \in DOMAIN cands : LastUtilization(cands[i]) # None
           /\ q.chosen # None
           /\ q.chosen[1] # cands[1]

\* Request q found at least two compatible backends, all with the same load.
EquallyLoaded(q) ==
    /\ q.sent
    /\ Len(q.compatible) >= 2
    /\ q.least = q.compatible

\* C8: two requests handled concurrently that select from the same set of at
\* least two equally loaded compatible backends are dispatched to different
\* backends.
C8_ConcurrentRequestsDiffer ==
    \A r1, r2 \in DOMAIN req :
        (/\ r1 # r2
         /\ r1 \notin req[r2].after
         /\ r2 \notin req[r1].after
         /\ EquallyLoaded(req[r1])
         /\ EquallyLoaded(req[r2])
         /\ req[r1].compatible = req[r2].compatible)
        => req[r1].chosen # req[r2].chosen

\* C9: with two usable backends that host the same model, allow the group,
\* have equal load and were never used, two sequential identical requests are
\* dispatched to different backends.
C9_SequentialRequestsAlternate ==
    \A r1, r2 \in DOMAIN req :
        (/\ r1 \in req[r2].after
         /\ req[r1].group = req[r2].group
         /\ req[r1].model = req[r2].model
         /\ EquallyLoaded(req[r1])
         /\ EquallyLoaded(req[r2])
         /\ Len(req[r1].compatible) = 2
         /\ req[r1].compatible = req[r2].compatible
         /\ \A u \in Range(req[r1].compatible) : LastUtilization(u) = None)
        => req[r1].chosen # req[r2].chosen

\* C10: a forwarded request carries exactly one Authorization header, and
\* its value is "Bearer <vllm_token>".
C10_OneAuthorizationHeader ==
    \A r \in DOMAIN req :
        req[r].sent =>
            /\ Cardinality({k \in DOMAIN req[r].out_headers :
                              Lower(k) = "authorization"}) = 1
            /\ req[r].out_headers["Authorization"] = Bearer(vllm_token)

\* A request that came with two Authorization headers and two others has been
\* forwarded.
C10_Witness ==
    \E r \in DOMAIN req :
        /\ req[r].sent
        /\ Cardinality({i \in DOMAIN req[r].in_headers :
                          Lower(req[r].in_headers[i].k) = "authorization"}) = 2
        /\ "x-trace" \in DOMAIN req[r].out_headers

\* The values of the Authorization headers request q came with.
InboundAuthorization(q) ==
    {q.in_headers[i].v : i \in {j \in DOMAIN q.in_headers :
                                  Lower(q.in_headers[j].k) = "authorization"}}

\* The values of the Authorization headers request q goes out with.
OutboundAuthorization(q) ==
    {q.out_headers[k] : k \in {h \in DOMAIN q.out_headers : Lower(h) = "authorization"}}

RejectStatus(q) ==
    LET auth == HeaderGet(q.in_headers, "Authorization")
    IN IF auth = None \/ auth[1].scheme # "Bearer" THEN 401
       ELSE IF \A i \in DOMAIN group_tokens : auth[1].rest \notin group_tokens[i].tokens
       THEN 403
       ELSE IF q.path \notin {"chat/completions", "completions", "models", "embeddings"}
       THEN 404
       ELSE IF q.path # "models" /\ (~q.body[1].json \/ q.body[1].model = None)
       THEN 400
       ELSE 0

\* C12: the first failing check, in the order Authorization header, token,
\* route, payload, decides the status 401, 403, 404 or 400; a request that
\* passes them all gets none of these from the handler.
C12_FirstFailingCheckDecides ==
    \A r \in DOMAIN req :
        req[r].pc # "idle" =>
            IF RejectStatus(req[r]) # 0
            THEN req[r].pc = "done" /\ req[r].status = RejectStatus(req[r])
            ELSE req[r].status \notin {401, 403, 404, 400}

\* A request with an unknown token, an unsupported route and a body that is
\* no JSON has been answered 403.
C12_Witness ==
    \E r \in DOMAIN req :
        /\ req[r].pc = "done"
        /\ req[r].status = 403
        /\ req[r].path \notin SupportedPaths
        /\ ~req[r].body[1].json

\* C14: a request for which no backend is compatible, or for which no
\* compatible backend's load probe returned a value, is answered 503 in the
\* step that finds this out; it is never forwarded, and no backend is asked a
\* second time.
C14_NoBackendMeans503 ==
    \A r \in DOMAIN req :
        LET q == req[r]
        IN /\ (q.pc = "done" /\ q.status = 503) =>
                /\ ~q.sent
                /\ q.chosen = None
                /\ q.compatible = << >> \/ Probed(q) = {}
           /\ (q.pc = "done" /\ RejectStatus(q) = 0 /\ q.path # "models"
                 /\ (C5_Expected(q) = << >> \/ Probed(q) = {})) => q.status = 503
           /\ q.pc = "wait_model" => ModelUrl(r) \notin DOMAIN q.obs_model
           /\ q.pc = "wait_load" =>
                 q.compatible # << >> /\ LoadUrl(r) \notin DOMAIN q.obs_load
           /\ q.sent => Probed(q) # {}

\* Two backends were compatible, the load probe of neither returned a value,
\* and the request has been answered 503.
C14_Witness ==
    \E r \in DOMAIN req :
        /\ req[r].pc = "done"
        /\ req[r].status = 503
        /\ Len(req[r].compatible) >= 2
        /\ DOMAIN req[r].obs_load = Range(req[r].compatible)
        /\ Probed(req[r]) = {}

\* The plan of the backend request q was dispatched to.
Plan(q) == upstream[q.chosen[1]]

\* C15: a request whose forward fails at the transport level (the chosen
\* backend refuses the connection, or in buffered mode the connection fails
\* before the body is complete) is answered 502, in buffered mode and in
\* streaming mode.
C15_TransportFailureGives502 ==
    \A r \in DOMAIN req :
        LET q == req[r]
        IN (/\ q.pc = "done"
            /\ q.chosen # None
            /\ Plan(q) = Down \/ (~q.stream /\ Plan(q)[1].breaks))
           => q.status = 502

\* C18: a streaming request whose backend answers with a status of 400 or
\* more gets that status and the backend's whole body in a response that is
\* not streamed.
C18_StreamingErrorIsRelayed ==
    \A r \in DOMAIN req :
        LET q == req[r]
        IN (/\ q.pc = "done"
            /\ q.stream
            /\ q.chosen # None
            /\ Plan(q) # Down
            /\ Plan(q)[1].status >= 400)
           => /\ q.status = Plan(q)[1].status
              /\ q.received = Plan(q)[1].chunks
              /\ ~q.streamed

\* the final chunk of a stream that was interrupted
ErrorTrailer == "event: error / data: {\"error\": \"Streaming interrupted\"}"

\* C19: a streaming request whose backend answers 2xx gets status 200 and the
\* backend's chunks in their order; when the backend fails after k chunks the
\* client gets those k chunks and then the error chunk.
C19_StreamingChunksInOrder ==
    \A r \in DOMAIN req :
        LET q == req[r]
        IN (/\ q.pc = "done"
            /\ q.stream
            /\ q.chosen # None
            /\ Plan(q) # Down
            /\ Plan(q)[1].status < 400)
           => /\ q.status = 200
              /\ q.streamed
              /\ q.received = IF Plan(q)[1].breaks
                              THEN Append(Plan(q)[1].chunks, ErrorTrailer)
                              ELSE Plan(q)[1].chunks

\* C13: the step that rejects a request with 401, 403, 404 or 400 ends the
\* request without a probe and without a forward, and leaves the registry,
\* the health flags, the failure counts, the breaker timestamps and both
\* caches as they were.
C13_RejectionChangesNothing ==
    [][\A r \in DOMAIN req :
          (req[r].pc = "idle" /\ req'[r].status \in {401, 403, 404, 400}) =>
              /\ req'[r].pc = "done"
              /\ ~req'[r].sent
              /\ req'[r].obs_healthy = << >>
              /\ req'[r].obs_model = << >>
              /\ req'[r].obs_load = << >>
              /\ UNCHANGED <<servers, server_health, failure_counts,
                             circuit_breaker_timeout, metrics_cache, model_cache,
                             inflight>>]_vars

\* A request has been rejected with 403 after an earlier request had filled
\* the model cache and counted a failure.
C13_Witness ==
    \E r \in DOMAIN req :
        /\ req[r].pc = "done"
        /\ req[r].status = 403
        /\ req[r].after # {}
        /\ model_cache # << >>
        /\ \E u \in Urls : failure_counts[u] > 0

\* C16: the /v1/models response has each model id once, with the least
\* created value among the descriptors with that id that the backends
\* contributed, and it has every contributed id.
C16_ModelsDeduplicated ==
    \A r \in DOMAIN req :
        LET q == req[r]
            from(id) == {u \in DOMAIN q.obs_model :
                            q.obs_model[u] # None /\ q.obs_model[u][1].id = id}
        IN (q.pc = "done" /\ q.detail = "models") =>
              /\ \A i, j \in DOMAIN q.received :
                    q.received[i].id = q.received[j].id => i = j
              /\ \A i \in DOMAIN q.received :
                    /\ \E u \in from(q.received[i].id) :
                          q.received[i].created = q.obs_model[u][1].created
                    /\ \A u \in from(q.received[i].id) :
                          q.received[i].created <= q.obs_model[u][1].created
              /\ \A u \in DOMAIN q.obs_model :
                    q.obs_model[u] # None =>
                        \E i \in DOMAIN q.received :
                            q.received[i].id = q.obs_model[u][1].id

\* Three backends contributed the same id, the second of them with the least
\* created value, and the response has one entry with that value.
C16_Witness ==
    \E r \in DOMAIN req :
        /\ req[r].pc = "done"
        /\ req[r].detail = "models"
        /\ Len(req[r].models_data) = 3
        /\ Len(req[r].received) = 1
        /\ req[r].received[1].created = 1
        /\ req[r].models_data[1].created = 2

\* C17: handle_models_request asks a backend for its model only if the
\* backend allows the group and is_server_healthy returned true for it; a
\* backend whose breaker timestamp was still ahead is not asked; every model
\* in the response is hosted by a backend that was asked.
C17_ModelsOnlyFromUsableAllowed ==
    \A r \in DOMAIN req :
        LET q == req[r]
        IN (q.path = "models" /\ RejectStatus(q) = 0) =>
              /\ \A u \in DOMAIN q.obs_model :
                    /\ q.group \in ServerEntry(u)[1].allowed_groups
                    /\ u \in DOMAIN q.obs_healthy
                    /\ q.obs_healthy[u]
                    /\ u \notin q.obs_open
                    /\ q.obs_model[u] # None => q.obs_model[u] = hosted[u]
              /\ q.pc = "wait_models" =>
                    /\ q.group \in ServerEntry(ModelUrl(r))[1].allowed_groups
                    /\ q.obs_healthy[ModelUrl(r)]
                    /\ ModelUrl(r) \notin q.obs_open
              /\ \A i \in DOMAIN q.received :
                    \E u \in DOMAIN q.obs_model :
                        /\ q.obs_model[u] # None
                        /\ q.obs_model[u][1].id = q.received[i].id

\* A /v1/models request of group g2 has been answered with a model although
\* one backend that allows g2 was in cool-down and another backend does not
\* allow g2.
C17_Witness ==
    \E r \in DOMAIN req :
        /\ req[r].pc = "done"
        /\ req[r].detail = "models"
        /\ req[r].group = "g2"
        /\ req[r].obs_open # {}
        /\ req[r].received # << >>
        /\ \E i \in DOMAIN servers : req[r].group \notin servers[i].allowed_groups

\* C20: the response of GET /metrics is 200 and has an entry under the URL
\* of every backend of the registry; the entry of a backend whose fetch
\* failed, by a transport error or by a status that is not 2xx, is an error
\* entry.
C20_MetricsEntryPerBackend ==
    \A r \in DOMAIN req :
        LET q == req[r]
        IN (q.pc = "done" /\ q.path = "/metrics") =>
              /\ q.status = 200
              /\ \A i \in DOMAIN servers :
                    /\ servers[i].url \in DOMAIN q.metrics_data
                    /\ q.obs_load[servers[i].url] = None =>
                          q.metrics_data[servers[i].url].kind = "error"

\* the steps in which a probe records its failure, and its success
FailureOps == {"metrics_fail", "model_fail"}
SuccessOps == {"metrics_ok", "model_ok"}

\* C24: the step in which a probe fails adds exactly one to the backend's
\* failure count and sets healthy = false; it sets the breaker timestamp to
\* now + cooldown_period when the new count is at least max_failures, and
\* otherwise leaves the backend's breaker timestamp as it was.
C24_FailureCountsOnce ==
    [][ev'.op \in FailureOps =>
          LET u == ev'.url
          IN /\ failure_counts'[u] = failure_counts[u] + 1
             /\ u \in DOMAIN server_health'
             /\ ~server_health'[u].healthy
             /\ IF failure_counts'[u] >= max_failures
                THEN /\ u \in DOMAIN circuit_breaker_timeout'
                     /\ circuit_breaker_timeout'[u] = now + cooldown_period
                ELSE /\ (u \in DOMAIN circuit_breaker_timeout')
                          = (u \in DOMAIN circuit_breaker_timeout)
                     /\ u \in DOMAIN circuit_breaker_timeout =>
                          circuit_breaker_timeout'[u] = circuit_breaker_timeout[u]]_vars

\* A probe has just failed for the first time, below the threshold: the
\* backend is unhealthy and has no breaker timestamp.
C24_Witness ==
    /\ ev.op \in FailureOps
    /\ failure_counts[ev.url] = 1
    /\ max_failures > 1
    /\ ev.url \notin DOMAIN circuit_breaker_timeout
    /\ ~server_health[ev.url].healthy

\* C25: right after a probe has succeeded the backend has no breaker
\* timestamp, also when the probe was started before the breaker opened.
C25_SuccessClearsBreaker ==
    ev.op \in SuccessOps => ev.url \notin DOMAIN circuit_breaker_timeout

\* The backend's cool-down has elapsed and no probe has come back since: the
\* breaker timestamp is not later than now, or is_server_healthy has removed
\* it and zeroed the count after the last failure.
HalfOpen(u) ==
    \/ u \in DOMAIN circuit_breaker_timeout /\ circuit_breaker_timeout[u] <= now
    \/ /\ u \notin DOMAIN circuit_breaker_timeout
       /\ failure_counts[u] = 0
       /\ u \in DOMAIN server_health
       /\ ~server_health[u].healthy

\* C26: a probe that fails for a backend whose cool-down has elapsed sets the
\* breaker timestamp to now + cooldown_period, whatever max_failures is.
C26_HalfOpenFailureReopens ==
    [][(ev'.op \in FailureOps /\ HalfOpen(ev'.url)) =>
          /\ ev'.url \in DOMAIN circuit_breaker_timeout'
          /\ circuit_breaker_timeout'[ev'.url] = now + cooldown_period]_vars

\* C27: is_server_healthy answers true for a backend whose last recorded
\* probe outcome is a success, recorded before now.
C27_HealthyAfterSuccess ==
    (/\ ev.op = "is_server_healthy"
     /\ ev.url \in DOMAIN server_health
     /\ server_health[ev.url].healthy
     /\ server_health[ev.url].last_checked # None
     /\ server_health[ev.url].last_checked[1] < now)
    => ev.ret = Some(TRUE)

\* the calls of get_server_load and of get_model_on_server, whether they
\* return at once or send their request
LoadCalls == {"get_server_load", "metrics_request"}
ModelCalls == {"get_model_on_server", "model_request"}

C30_CacheHitChangesNothing ==
    [][/\ (/\ ev'.op \in LoadCalls
            /\ IsServerHealthy(H, ev'.url, now).ret
            /\ ev'.url \in DOMAIN metrics_cache) =>
              /\ ev'.op = "get_server_load"
              /\ ev'.ret = Some(metrics_cache[ev'.url])
              /\ UNCHANGED <<inflight, server_health, failure_counts,
                             metrics_cache, model_cache>>
       /\ (/\ ev'.op \in ModelCalls
            /\ IsServerHealthy(H, ev'.url, now).ret
            /\ ev'.url \in DOMAIN model_cache) =>
              /\ ev'.op = "get_model_on_server"
              /\ ev'.ret = Some(model_cache[ev'.url])
              /\ UNCHANGED <<inflight, server_health, failure_counts,
                             metrics_cache, model_cache>>]_vars

\* get_model_on_server has just returned the cached descriptor of a backend
\* whose health record a probe has written.
C30_Witness ==
    /\ ev.op = "get_model_on_server"
    /\ ev.ret # None
    /\ ev.url \in DOMAIN model_cache
    /\ ev.ret = Some(model_cache[ev.url])
    /\ server_health[ev.url].last_checked # None

\* C28: once a request has been forwarded, the registry entry of the chosen
\* backend carries the time of the selection as its last_utilization.
C28_ChosenBackendIsMarked ==
    \A r \in DOMAIN req :
        (req[r].sent /\ req[r].chosen # None) =>
            LastUtilization(req[r].chosen[1]) = Some(req[r].selnow)

\* the positions of the directory's groups that list the token
Holders(token) == {i \in DOMAIN group_tokens : token \in group_tokens[i].tokens}

\* C22: a request with a bearer token is answered 403 exactly when no group
\* of the directory lists the token, and a request that passes the four
\* checks is handled for the first group, in the directory's order, that
\* lists its token.
C22_FirstGroupInDirectoryOrder ==
    \A r \in DOMAIN req :
        LET q == req[r]
            auth == HeaderGet(q.in_headers, "Authorization")
        IN (q.pc # "idle" /\ auth # None /\ auth[1].scheme = "Bearer") =>
              LET holders == Holders(auth[1].rest)
              IN IF holders = {} THEN q.status = 403 /\ q.group = ""
                 ELSE /\ q.status # 403
                      /\ RejectStatus(q) = 0 =>
                            \E i \in holders :
                                /\ \A j \in holders : i <= j
                                /\ q.group = group_tokens[i].group

\* A request whose token two groups list is handled for the first of them,
\* which is not the only one.
C22_Witness ==
    \E r \in DOMAIN req :
        LET auth == HeaderGet(req[r].in_headers, "Authorization")
        IN /\ req[r].pc # "idle"
           /\ auth # None
           /\ Cardinality(Holders(auth[1].rest)) = 2
           /\ req[r].group = group_tokens[1].group
           /\ group_tokens[2].group # group_tokens[1].group

\* C21: the response of GET /health has one entry per backend of the
\* registry, in the registry's order; its healthy is the backend's health
\* flag, its metrics_cached and model_cached are the backend's entries in
\* the two caches, null where the cache holds none.
C21_HealthEntryPerBackend ==
    ev.op = "health_check" =>
        LET health_data == ev.ret[1]
        IN /\ Len(health_data) = Len(servers)
           /\ \A i \in DOMAIN servers :
                 LET u == servers[i].url
                     entry == health_data[i]
                 IN /\ entry.url = u
                    /\ entry.healthy = server_health[u].healthy
                    /\ IF u \in DOMAIN metrics_cache
                       THEN entry.metrics_cached = Some(metrics_cache[u])
                       ELSE entry.metrics_cached = None
                    /\ IF u \in DOMAIN model_cache
                       THEN entry.model_cached = Some(model_cache[u])
                       ELSE entry.model_cached = None

\* /health has just reported one backend unhealthy and without cache
\* entries, and another healthy with both of its cache entries.
C21_Witness ==
    /\ ev.op = "health_check"
    /\ \E i, j \in DOMAIN ev.ret[1] :
          /\ ~ev.ret[1][i].healthy
          /\ ev.ret[1][i].model_cached = None
          /\ ev.ret[1][j].healthy
          /\ ev.ret[1][j].metrics_cached # None
          /\ ev.ret[1][j].model_cached # None

\* the number of ports in the inclusive ranges of the first n hosts
RECURSIVE PortsBefore(_, _)
PortsBefore(vllm_hosts, n) ==
    IF n = 0 THEN 0
    ELSE LET p == vllm_hosts[n].ports
         IN PortsBefore(vllm_hosts, n - 1)
              + (IF p.end >= p.start THEN p.end - p.start + 1 ELSE 0)

\* C23: after load_config the registry holds, host after host and port after
\* port, one backend for every port of every host's inclusive range and no
\* other; its URL is the hostname, with http:// in front when the hostname
\* has no scheme, and the port.  The health map holds one record per URL of
\* the registry, with healthy = true and last_checked = None.
C23_RegistryFromPortRanges ==
    ev.op = "load_config" =>
        LET vllm_hosts == ev.vllm_hosts
        IN /\ Len(servers) = PortsBefore(vllm_hosts, Len(vllm_hosts))
           /\ \A n \in DOMAIN vllm_hosts :
                 \A port \in vllm_hosts[n].ports.start..vllm_hosts[n].ports.end :
                    LET i == PortsBefore(vllm_hosts, n - 1)
                               + port - vllm_hosts[n].ports.start + 1
                        hostname == vllm_hosts[n].hostname
                    IN /\ i \in DOMAIN servers
                       /\ servers[i].url.name = hostname.name
                       /\ servers[i].url.port = port
                       /\ servers[i].url.scheme =
                            (IF hostname.scheme = "" THEN "http://" ELSE hostname.scheme)
                       /\ servers[i].allowed_groups = vllm_hosts[n].allowed_groups
           /\ DOMAIN server_health = {servers[i].url : i \in DOMAIN servers}
           /\ \A u \in DOMAIN server_health :
                 server_health[u] = [healthy |-> TRUE, last_checked |-> None]

\* A configuration of two hosts, the first with two ports and no scheme, has
\* been loaded into a registry of at least three backends.
C23_Witness ==
    /\ ev.op = "load_config"
    /\ Len(ev.vllm_hosts) = 2
    /\ ev.vllm_hosts[1].hostname.scheme = ""
    /\ ev.vllm_hosts[1].ports = [start |-> 1, end |-> 2]
    /\ Len(servers) >= 3
    /\ servers[2].url = [scheme |-> "http://", name |-> "a", port |-> 2]
    /\ Cardinality(DOMAIN server_health) >= 3

\* C31: the step in which a probe fails returns None to the caller, adds
\* one to the failure count of the probed backend and of no other, and
\* writes neither cache.
C31_FailedProbeReturnsNone ==
    [][ev'.op \in FailureOps =>
          /\ ev'.ret = None
          /\ failure_counts' = [failure_counts EXCEPT ![ev'.url] = @ + 1]
          /\ UNCHANGED <<metrics_cache, model_cache>>]_vars

\* A metrics probe has just failed for the second time in a row; the
\* backend has no metrics entry.
C31_Witness ==
    /\ ev.op = "metrics_fail"
    /\ ev.ret = None
    /\ failure_counts[ev.url] = 2
    /\ ev.url \notin DOMAIN metrics_cache

\* C32: the step in which a model probe gets a 2xx response with an empty or
\* absent data array returns None and changes neither the model cache nor
\* the backend's failure count nor its breaker timestamp.
C32_EmptyDataIsNoFailure ==
    [][ev'.op = "model_empty" =>
          /\ ev'.ret = None
          /\ UNCHANGED <<model_cache, failure_counts, circuit_breaker_timeout>>]_vars

\* A model probe has just come back with an empty data array for a backend
\* that has no model entry, no failure and no breaker timestamp.
C32_Witness ==
    /\ ev.op = "model_empty"
    /\ ev.url \notin DOMAIN model_cache
    /\ failure_counts[ev.url] = 0
    /\ ev.url \notin DOMAIN circuit_breaker_timeout

\* C37: a call of is_server_healthy deletes the backend's breaker timestamp
\* and sets its failure count to 0 when the timestamp exists and is not
\* later than now, and otherwise changes neither; it never changes the
\* health map, the caches or the registry.
C37_IsServerHealthyOnlyResets ==
    [][ev'.op = "is_server_healthy" =>
          LET u == ev'.url
          IN /\ UNCHANGED <<server_health, metrics_cache, model_cache, servers>>
             /\ IF u \in DOMAIN circuit_breaker_timeout
                THEN IF circuit_breaker_timeout[u] <= now
                     THEN /\ circuit_breaker_timeout' = Del(circuit_breaker_timeout, u)
                          /\ failure_counts' = [failure_counts EXCEPT ![u] = 0]
                     ELSE UNCHANGED <<circuit_breaker_timeout, failure_counts>>
                ELSE UNCHANGED <<circuit_breaker_timeout, failure_counts>>]_vars

\* is_server_healthy has just deleted an elapsed breaker timestamp: the
\* count is 0 and the health record is the one the last failure wrote.
C37_Witness ==
    /\ ev.op = "is_server_healthy"
    /\ ev.reset
    /\ failure_counts[ev.url] = 0
    /\ ev.url \notin DOMAIN circuit_breaker_timeout
    /\ ~server_health[ev.url].healthy
    /\ server_health[ev.url].last_checked # None

\* C38: a backend whose breaker timestamp is later than now has healthy =
\* false and a failure count of at least max_failures.
C38_OpenBreakerMeansUnhealthy ==
    \A u \in DOMAIN circuit_breaker_timeout :
        circuit_breaker_timeout[u] > now =>
            /\ ~HealthyFlag(server_health, u)
            /\ failure_counts[u] >= max_failures

RECURSIVE SumOf(_, _)
\* the sum of the samples of the lines of a text whose name starts with the
\* prefix, in tenths
SumOf(metrics_data, prefix) ==
    IF metrics_data = << >> THEN 0
    ELSE LET line == Head(metrics_data)
         IN (IF line.head \in {"", " "} /\ line.name[1] = prefix THEN line.tenths ELSE 0)
              + SumOf(Tail(metrics_data), prefix)

\* C33: the load a successful metrics probe returns and stores in the
\* metrics cache is the sum of the samples of the lines whose name starts
\* with vllm:num_requests_running plus the sum of the samples of the lines
\* whose name starts with vllm:num_requests_waiting.
C33_LoadIsRunningPlusWaiting ==
    ev.op = "metrics_ok" =>
        LET metrics_data == upstream[ev.url][1].chunks
            total == SumOf(metrics_data, "vllm:num_requests_running")
                       + SumOf(metrics_data, "vllm:num_requests_waiting")
        IN /\ ev.ret = Some(total)
           /\ ev.url \in DOMAIN metrics_cache
           /\ metrics_cache[ev.url] = total

\* A probe has returned 14.0 for a text with a running line of 12, a waiting
\* line of 2.0 and a line of another gauge.
C33_Witness ==
    /\ ev.op = "metrics_ok"
    /\ ev.ret = Some(140)
    /\ \E i, j, k \in DOMAIN upstream[ev.url][1].chunks :
          LET metrics_data == upstream[ev.url][1].chunks
          IN /\ metrics_data[i].name[1] = "vllm:num_requests_running"
             /\ metrics_data[i].tenths = 120
             /\ metrics_data[j].name[1] = "vllm:num_requests_waiting"
             /\ metrics_data[j].tenths = 20
             /\ metrics_data[k].name[1] = "vllm:num_requests_swapped"

\* C34: a run of refresh_metrics or refresh_models that has returned has
\* called its probe exactly once for every backend of the registry, in the
\* registry's order, and every one of these calls has returned, whether or
\* not a probe of the run has failed; while a run goes on no probe has been
\* called twice.
C34_RefreshProbesEveryBackend ==
    \A r \in DOMAIN req :
        /\ req[r].pc = "done" =>
              /\ Len(req[r].tasks) = Len(servers)
              /\ \A i \in DOMAIN servers :
                    /\ req[r].tasks[i].url = servers[i].url
                    /\ req[r].tasks[i].calls = 1
                    /\ req[r].tasks[i].state = "done"
        /\ req[r].pc = "refresh" =>
              \A i \in DOMAIN req[r].tasks : req[r].tasks[i].calls <= 1

\* The second run has returned; in it the probe of the first backend failed
\* and the probe of the second backend, answered later, returned a load.
C34_Witness ==
    \E r \in DOMAIN req :
        /\ req[r].pc = "done"
        /\ req[r].runs = 2
        /\ req[r].kind = "metrics"
        /\ req[r].tasks[1].failed
        /\ req[r].tasks[2].ret # None
        /\ ev.op = "task_ok"
        /\ ev.url = req[r].tasks[2].url

\* C39: a probe called by a refresh run for a backend that has failed at
\* least once and fewer than max_failures times, and has no breaker
\* timestamp, sends its request or returns a cached value.
C39_FailedBackendIsProbedAgain ==
    [][\A r \in DOMAIN req :
          \A i \in DOMAIN req[r].tasks :
             LET u == req[r].tasks[i].url
             IN (/\ req[r].tasks[i].state = "new"
                 /\ req'[r].tasks[i].state # "new"
                 /\ failure_counts[u] > 0
                 /\ failure_counts[u] < max_failures
                 /\ u \notin DOMAIN circuit_breaker_timeout)
                => (req'[r].tasks[i].state = "wait" \/ req'[r].tasks[i].ret # None)]_vars

C36_ReloadKeepsHealthRecords ==
    [][ev'.op = "load_config" =>
          LET new == UrlsOf(ev'.vllm_hosts)
              old == RegUrls
          IN /\ {servers'[i].url : i \in DOMAIN servers'} = new
             /\ Len(servers') = Cardinality(new)
             /\ DOMAIN server_health' = new
             /\ \A u \in new \cap old :
                   /\ server_health'[u].healthy = server_health[u].healthy
                   /\ failure_counts'[u] = failure_counts[u]
                   /\ (u \in DOMAIN circuit_breaker_timeout')
                        = (u \in DOMAIN circuit_breaker_timeout)
             /\ \A u \in new \ old :
                   /\ server_health'[u] = [healthy |-> TRUE, last_checked |-> None]
                   /\ failure_counts'[u] = 0
                   /\ u \notin DOMAIN circuit_breaker_timeout'
             /\ \A u \in old \ new : u \notin DOMAIN circuit_breaker_timeout']_vars

====
